---- MODULE Spec2Model ----
(***************************************************************************)
(* CloudFormation custom-resource handlers for CloudWatch Events Rules     *)
(* (lib/custom-cf-cw-events-rule.js) and Targets                           *)
(* (lib/custom-cf-cw-events-target.js).                                    *)
(*                                                                         *)
(* One behaviour of Spec is one invocation of one handler: Init draws the  *)
(* lifecycle event, the handler action runs the synchronous part of        *)
(* exports.handler, and each callback action runs one provider callback    *)
(* with a result drawn from the provider's result shapes.  The value       *)
(* uniqueSuffix() returns is drawn by the step that calls it.  Events      *)
(* carry StackId, LogicalResourceId and ResourceProperties, and            *)
(* PhysicalResourceId on Update and Delete, as CloudFormation sends them.  *)
(*                                                                         *)
(* JavaScript values: strings are TLA+ strings, objects are functions from *)
(* key strings to values (a key outside DOMAIN is an absent property),     *)
(* arrays are sequences, `undefined` is the token Undefined and `null` as  *)
(* a callback error is the record Null.                                    *)
(***************************************************************************)
EXTENDS Integers, Sequences, FiniteSets, TLC

(***************************************************************************)
(* Bounds of the model.                                                    *)
(***************************************************************************)
\* largest FailedEntryCount, and longest FailedEntries list, a provider
\* result carries
MaxFailedEntries == 2

(***************************************************************************)
(* JavaScript and cfn-response values.                                     *)
(***************************************************************************)
Undefined == "#undefined"
Null == [null |-> TRUE]
EmptyObj == [k \in {} |-> Undefined]
SUCCESS == "SUCCESS"
FAILED == "FAILED"

\* obj[key] of JavaScript: undefined when the object has no such property
Get(obj, key) == IF key \in DOMAIN obj THEN obj[key] ELSE Undefined

\* `${v}` of a template literal
TemplateString(v) == IF v = Undefined THEN "undefined" ELSE v

\* an object literal {k: undefined, ...} read back as JSON: the keys whose
\* value is undefined are dropped
Strip(obj) == [k \in {j \in DOMAIN obj : obj[j] # Undefined} |-> obj[k]]

Max(S) == CHOOSE m \in S : \A n \in S : n <= m
Min(S) == CHOOSE m \in S : \A n \in S : m <= n

(***************************************************************************)
(* Inputs: the lifecycle events the orchestrator delivers.                 *)
(***************************************************************************)
RequestTypes == {"Create", "Update", "Delete", "Invalid"}

StackIds ==
  {"arn:aws:cloudformation:us-east-1:012345678901:stack/test-stack-name/12345678-ab12-34cd-e56f-123456789abc",
   "xxx-yyy-111-222"}

LogicalIds == {"LogicalResourceId123"}

PhysicalIds == {"test-stack-name-LogicalResourceId123-UT4QDIDSRK4IK"}

\* values uniqueSuffix() returns
Suffixes == {"UT4QDIDSRK4IK", "A1B2C3D4E5F6G"}

RuleNames == PhysicalIds \cup {"events-rule-name"}

RuleArns == {"arn:aws:events:us-east-1:012345678901:rule/test-rule"}

\* the six fields describeCallback compares, and State
ComparedFields == {"Name", "Arn", "EventPattern", "ScheduleExpression",
                   "Description", "RoleArn"}

\* ResourceProperties of a Custom::Events::Rule: every key optional
RuleProperties ==
  { Strip(r) : r \in [Name : RuleNames \cup {Undefined},
                      Arn : RuleArns \cup {Undefined},
                      Description : {"long description", Undefined},
                      EventPattern : {"complex pattern", Undefined},
                      RoleArn : {"arn:aws:iam::012345678901:role/test-rule-role", Undefined},
                      ScheduleExpression : {"rate(1 minute)", Undefined},
                      State : {"ENABLED", "DISABLED", "UNKNOWN", Undefined}] }

\* PhysicalResourceId is absent on Create and present on Update and Delete
EventIds(requestType) ==
  IF requestType \in {"Update", "Delete"} THEN PhysicalIds ELSE {Undefined}

RuleEvents ==
  UNION { [handler : {"Rule"},
           RequestType : {rt},
           StackId : StackIds,
           LogicalResourceId : LogicalIds,
           PhysicalResourceId : EventIds(rt),
           ResourceProperties : IF rt \in {"Create", "Update"}
                                  THEN RuleProperties
                                  ELSE {EmptyObj}] : rt \in RequestTypes }

\* JavaScript objects nested in ResourceProperties are named by a token and
\* read through Property: the InputTransformer objects, with each subset of
\* their keys
InputTransformers == {"it{}", "it{InputPathsMap}", "it{InputTemplate}",
                      "it{InputPathsMap,InputTemplate}"}

\* obj[property] of a nested object
Property(obj, property) ==
  CASE property = "InputPathsMap"
         /\ obj \in {"it{InputPathsMap}", "it{InputPathsMap,InputTemplate}"}
         -> "{instance: $.detail.instance}"
    [] property = "InputTemplate"
         /\ obj \in {"it{InputTemplate}", "it{InputPathsMap,InputTemplate}"}
         -> "<instance> changed"
    [] OTHER -> Undefined

\* ResourceProperties of a Custom::Events::Target: every key optional
TargetProperties ==
  { Strip(r) : r \in [Rule : {"events-rule-name", Undefined},
                      RuleArn : {"events-rule-name", Undefined},
                      Arn : {"arn:aws:::012345678901:whatever", Undefined},
                      RoleArn : {"arn:aws:iam::012345678901:role/test-target-role", Undefined},
                      Input : {"{}", Undefined},
                      InputPath : {"$.detail", Undefined},
                      InputTransformer : InputTransformers \cup {Undefined},
                      KinesisParameters : {"{PartitionKeyPath}", Undefined},
                      RunCommandParameters : {"{RunCommandTargets}", Undefined},
                      EcsParameters : {"{TaskDefinitionArn}", Undefined}] }

\* LogicalResourceId of a Target event: a Create is also given one that is
\* longer than the 50 characters createResource keeps of it
TargetLogicalIds(requestType) ==
  IF requestType = "Create"
  THEN LogicalIds \cup {"TargetWithAVeryLongLogicalResourceIdOfSixtyCharacters1234567"}
  ELSE LogicalIds

\* the Target handler never reads StackId
TargetEvents ==
  UNION { [handler : {"Target"},
           RequestType : {rt},
           StackId : {"arn:aws:cloudformation:us-east-1:012345678901:stack/test-stack-name/12345678-ab12-34cd-e56f-123456789abc"},
           LogicalResourceId : TargetLogicalIds(rt),
           PhysicalResourceId : EventIds(rt),
           ResourceProperties : IF rt = "Invalid" THEN {EmptyObj}
                                                  ELSE TargetProperties]
          : rt \in RequestTypes }

\* names the Rule handler synthesizes for a rule that is given no Name:
\* "<stack>-<LogicalResourceId>-<suffix>"
SynthesizedRuleNames ==
  {"test-stack-name-LogicalResourceId123-UT4QDIDSRK4IK",
   "xxx-yyy-111-222-LogicalResourceId123-A1B2C3D4E5F6G"}

\* Create events of targets of a rule that has a supplied or a synthesized
\* name
NamedRuleTargetEvents ==
  [handler : {"Target"},
   RequestType : {"Create"},
   StackId : {"arn:aws:cloudformation:us-east-1:012345678901:stack/test-stack-name/12345678-ab12-34cd-e56f-123456789abc"},
   LogicalResourceId : TargetLogicalIds("Create"),
   PhysicalResourceId : EventIds("Create"),
   ResourceProperties :
     {[Rule |-> r, Arn |-> "arn:aws:::012345678901:whatever"]
        : r \in SynthesizedRuleNames \cup {"events-rule-name"}}]

\* how many invocations are in flight together
MaxInFlight == 2

\* ResourceProperties of the events of invocations in flight together
ConcurrentProperties(handler, requestType) ==
  CASE requestType = "Invalid" \/ (handler = "Rule" /\ requestType = "Delete")
         -> EmptyObj
    [] handler = "Rule"
         -> [Name |-> "test-stack-name-LogicalResourceId123-UT4QDIDSRK4IK",
             Arn |-> "arn:aws:events:us-east-1:012345678901:rule/test-rule",
             ScheduleExpression |-> "rate(1 minute)",
             State |-> "ENABLED"]
    [] requestType = "Delete"
         -> [Rule |-> "events-rule-name"]
    [] OTHER
         -> [Rule |-> "events-rule-name",
             Arn |-> "arn:aws:::012345678901:whatever"]

\* events of invocations that are in flight together: both handlers, every
\* request type, and Updates of two resources with physical ids of their own
ConcurrentEvents ==
  LET base == { e \in RuleEvents \cup TargetEvents :
                  /\ e.StackId # "xxx-yyy-111-222"
                  /\ e.LogicalResourceId \in LogicalIds
                  /\ e.ResourceProperties
                       = ConcurrentProperties(e.handler, e.RequestType) }
  IN base \cup { [e EXCEPT !.PhysicalResourceId =
                             "other-stack-name-Other456-A1B2C3D4E5F6G"]
                 : e \in {b \in base : b.RequestType = "Update"} }

(***************************************************************************)
(* Results the provider callbacks deliver.                                 *)
(***************************************************************************)
Errors == {[message |-> "big problem!", stack |-> "long stack"]}

ErrorResults == [err : Errors, data : {Null}]

\* putRule(params) -> (error|null, {RuleArn})
PutRuleResults ==
  ErrorResults \cup [err : {Null}, data : [RuleArn : RuleArns]]

\* deleteRule / enableRule / disableRule -> (error|null, {})
EmptyResults == ErrorResults \cup [err : {Null}, data : {EmptyObj}]

\* describeRule({Name}) -> (error|null, {Name, Arn, EventPattern,
\* ScheduleExpression, Description, RoleArn, State}): a rule has a Name and a
\* State; the other fields are omitted when the rule has none
DescribedRules ==
  { Strip(r) : r \in [Name : RuleNames,
                      Arn : RuleArns \cup {Undefined},
                      Description : {"long description", Undefined},
                      EventPattern : {"complex pattern", Undefined},
                      RoleArn : {"arn:aws:iam::012345678901:role/test-rule-role", Undefined},
                      ScheduleExpression : {"rate(1 minute)", Undefined},
                      State : {"ENABLED", "DISABLED"}] }

DescribeRuleResults == ErrorResults \cup [err : {Null}, data : DescribedRules]

\* the entries a provider reports as failed, in the order it reports them
FailedEntry(i) ==
  [TargetId |-> "test-stack-name-LogicalResourceId123-UT4QDIDSRK4IK",
   ErrorCode |-> IF i % 2 = 1 THEN "SomeWeirdException" ELSE "OtherException",
   ErrorMessage |-> IF i % 2 = 1 THEN "Something wrong has happened"
                                 ELSE "Something else has happened"]

FailedEntryLists == { [i \in 1..n |-> FailedEntry(i)] : n \in 0..MaxFailedEntries }

\* putTargets / removeTargets -> (error|null, {FailedEntryCount,
\* FailedEntries}): each of the two keys may be missing, and the count need
\* not be the length of the list
TargetDatas ==
  { [k \in {"FailedEntryCount" : c \in cs} \cup {"FailedEntries" : l \in ls}
       |-> IF k = "FailedEntryCount" THEN CHOOSE c \in cs : TRUE
                                     ELSE CHOOSE l \in ls : TRUE]
    : cs \in {{}} \cup {{c} : c \in 0..MaxFailedEntries},
      ls \in {{}} \cup {{l} : l \in FailedEntryLists} }

TargetResults == ErrorResults \cup [err : {Null}, data : TargetDatas]

\* how many times the orchestrator sends the same Update
MaxInvocations == 2

\* targets a rule may hold before the Update: the one this resource created,
\* with the Arn it had then, and one of another resource
ProviderTargets(ev) ==
  SUBSET {[Id |-> ev.PhysicalResourceId, Arn |-> "arn:aws:::012345678901:before"],
          [Id |-> "OtherTarget-A1B2C3D4E5F6G", Arn |-> "arn:aws:::012345678901:other"]}

\* putTargets "adds specified targets to the specified rule, or updates the
\* targets if they are already associated with the rule": a target replaces
\* the one that has its Id
PutTargets(held, Targets) ==
  {t \in held : \A i \in 1..Len(Targets) : Targets[i].Id # t.Id}
    \cup {Targets[i] : i \in 1..Len(Targets)}

\* what putTargets yields: an error, a failed entry (nothing is put), or no
\* failed entry (the targets are put)
PutTargetsReplies ==
  ErrorResults
    \cup {[err |-> Null,
           data |-> [FailedEntryCount |-> n,
                     FailedEntries |-> [i \in 1..n |-> FailedEntry(i)]]]
          : n \in 0..1}

\* the targets of the rule after putTargets(params) yielded reply
ProviderAfter(held, params, reply) ==
  IF reply.err = Null /\ reply.data.FailedEntryCount = 0
  THEN PutTargets(held, params.Targets)
  ELSE held

\* results the provider may yield for an operation of one of several
\* invocations in flight
ConcurrentResults(op) ==
  CASE op = "describeRule" ->
         ErrorResults
           \cup [err : {Null},
                 data : {d \in DescribedRules :
                           DOMAIN d = {"Name", "Arn", "ScheduleExpression",
                                       "State"}}]
    [] op = "putRule" -> PutRuleResults
    [] op \in {"putTargets", "removeTargets"} -> PutTargetsReplies
    [] OTHER -> EmptyResults

\* a provider that is not followed
NoProvider == [rules |-> {}, attached |-> {}]

\* the rules of the provider that have this name: one or none
RuleNamed(prov, name) == {r \in prov.rules : r.Name = name}

\* the targets attached to the rule of this name
TargetsOf(prov, name) == {a.Target : a \in {b \in prov.attached : b.Rule = name}}

\* what the provider may yield for an operation: an error at any time, and
\* otherwise what the operation returns when the provider carries it out.
\* describeRule returns the rule of that name; putRule takes a Name and a
\* State of ENABLED or DISABLED (ENABLED when omitted); enableRule,
\* disableRule and putTargets need the rule to exist, and putTargets an Arn
\* in each target; deleteRule needs the rule to have no targets
ProviderReplies(prov, op, params) ==
  ErrorResults \cup
  CASE op = "describeRule" ->
         [err : {Null}, data : RuleNamed(prov, params.Name)]
    [] op = "putRule" ->
         IF /\ params.Name # Undefined
            /\ params.State \in {"ENABLED", "DISABLED", Undefined}
         THEN [err : {Null}, data : [RuleArn : RuleArns]]
         ELSE {}
    [] op \in {"enableRule", "disableRule"} ->
         IF RuleNamed(prov, params.Name) # {}
         THEN [err : {Null}, data : {EmptyObj}]
         ELSE {}
    [] op = "deleteRule" ->
         IF TargetsOf(prov, params.Name) = {}
         THEN [err : {Null}, data : {EmptyObj}]
         ELSE {}
    [] op = "putTargets" ->
         IF /\ RuleNamed(prov, params.Rule) # {}
            /\ \A i \in 1..Len(params.Targets) :
                 "Arn" \in DOMAIN params.Targets[i]
         THEN PutTargetsReplies \ ErrorResults
         ELSE {}
    [] op = "removeTargets" ->
         {[err |-> Null,
           data |-> [FailedEntryCount |-> 0, FailedEntries |-> <<>>]]}

\* the rule putRule(params) leaves: all that the call does not give is
\* cleared
PutRule(params, data) ==
  Strip([Name |-> params.Name,
         Arn |-> data.RuleArn,
         Description |-> params.Description,
         EventPattern |-> params.EventPattern,
         RoleArn |-> params.RoleArn,
         ScheduleExpression |-> params.ScheduleExpression,
         State |-> IF params.State = Undefined THEN "ENABLED"
                                               ELSE params.State])

\* the provider after it carried out the operation and yielded reply: it
\* changes only when it reports no error and no failed entry
ProviderApplied(prov, op, params, reply) ==
  IF reply.err # Null THEN prov
  ELSE CASE op = "putRule" ->
              [prov EXCEPT !.rules = (@ \ RuleNamed(prov, params.Name))
                                       \cup {PutRule(params, reply.data)}]
         [] op \in {"enableRule", "disableRule"} ->
              [prov EXCEPT !.rules =
                 {IF r.Name = params.Name
                  THEN [r EXCEPT !.State = IF op = "enableRule"
                                           THEN "ENABLED" ELSE "DISABLED"]
                  ELSE r : r \in @}]
         [] op = "deleteRule" ->
              [prov EXCEPT !.rules = @ \ RuleNamed(prov, params.Name)]
         [] op = "putTargets" /\ reply.data.FailedEntryCount = 0 ->
              [prov EXCEPT !.attached =
                 {a \in @ : a.Rule # params.Rule}
                   \cup {[Rule |-> params.Rule, Target |-> t]
                         : t \in PutTargets(TargetsOf(prov, params.Rule),
                                            params.Targets)}]
         [] op = "removeTargets" /\ reply.data.FailedEntryCount = 0 ->
              [prov EXCEPT !.attached =
                 {a \in @ : ~(/\ a.Rule = params.Rule
                              /\ \E i \in 1..Len(params.Ids) :
                                   params.Ids[i] = a.Target.Id)}]
         [] OTHER -> prov

\* a target of another resource
OtherTarget ==
  [Id |-> "OtherTarget-A1B2C3D4E5F6G", Arn |-> "arn:aws:::012345678901:other"]

\* the provider before an Update or a Delete. Of a rule: the rule of the physical id, as
\* any rule describeRule may return, with a target attached or not; or no
\* rule at all. Of a target: the rules of both names, and the target attached
\* to one of them with the Arn it had then
ProviderStates(ev) ==
  IF ev.handler = "Rule"
  THEN {NoProvider}
         \cup {[rules |-> {r}, attached |-> a]
               : r \in {d \in DescribedRules : d.Name = ev.PhysicalResourceId},
                 a \in SUBSET {[Rule |-> ev.PhysicalResourceId,
                                Target |-> OtherTarget]}}
  ELSE {[rules |-> {[Name |-> n, State |-> "ENABLED"] : n \in RuleNames},
         attached |-> {[Rule |-> old,
                        Target |-> [Id |-> ev.PhysicalResourceId,
                                    Arn |-> "arn:aws:::012345678901:before"]]}]
        : old \in RuleNames}

(***************************************************************************)
(* State.                                                                  *)
(***************************************************************************)
VARIABLES
  event,     \* the LifecycleEvent of the invocation (read-only)
  suffix,    \* what exports.uniqueSuffix() returned in this invocation,
             \* Undefined while it has not been called
  pc,        \* "start": handler not yet run; "waiting": a provider call is
             \* outstanding; "done": returned with none outstanding;
             \* "thrown": an exception escaped
  pending,   \* provider calls issued whose callback has not fired
  calls,     \* provider calls issued so far, in order
  results,   \* (err, data) pairs delivered to callbacks so far, in order
  sends,     \* Response.send calls so far, in order
  log,       \* log.info / log.error calls so far, in order
  createResourceCalls,  \* invocations of createResource so far
  bytes,     \* what crypto.randomBytes(20) returned to uniqueSuffix, <<>>
             \* where the suffix is drawn from Suffixes
  targets,   \* the targets the provider holds for the rule, {} where the
             \* provider is not followed
  outcomes,  \* the outcome and the provider's targets at the end of each
             \* earlier invocation for the same resource
  provider,  \* the rules the provider holds and the targets attached to
             \* them, where both are followed
  inflight   \* the invocations in flight together, each with its event and
             \* its own state, where more than one is followed

vars == <<event, suffix, pc, pending, calls, results, sends, log,
          createResourceCalls, bytes, targets, outcomes, provider, inflight>>


\* the mutable part of the state, threaded through the code of one step
World ==
  [pc |-> pc, pending |-> pending, calls |-> calls, results |-> results,
   sends |-> sends, log |-> log, createResourceCalls |-> createResourceCalls,
   suffix |-> suffix]

SetState(w) ==
  /\ pc' = w.pc
  /\ pending' = w.pending
  /\ calls' = w.calls
  /\ results' = w.results
  /\ sends' = w.sends
  /\ log' = w.log
  /\ createResourceCalls' = w.createResourceCalls
  /\ suffix' = w.suffix
  /\ UNCHANGED event

\* one invocation against a provider that is not followed
SetWorld(w) ==
  /\ SetState(w)
  /\ UNCHANGED <<bytes, targets, outcomes, provider, inflight>>

\* the state of an invocation that has not begun
FreshWorld ==
  [pc |-> "start", pending |-> {}, calls |-> <<>>, results |-> <<>>,
   sends |-> <<>>, log |-> <<>>, createResourceCalls |-> 0,
   suffix |-> Undefined]

\* log.info(...)
LogInfo(w, message) ==
  [w EXCEPT !.log = Append(@, [level |-> "info", message |-> message,
                               stack |-> Undefined, nargs |-> 2])]

\* log.error(err, err.stack)
LogErrorStack(w, err) ==
  [w EXCEPT !.log = Append(@, [level |-> "error", message |-> err.message,
                               stack |-> err.stack, nargs |-> 2])]

\* log.error(new Error(message))
LogNewError(w, message) ==
  [w EXCEPT !.log = Append(@, [level |-> "error", message |-> message,
                               stack |-> Undefined, nargs |-> 1])]

\* Response.send(event, context, status, data)
Send4(w, status, data) ==
  [w EXCEPT !.sends = Append(@, [status |-> status, data |-> data,
                                 physicalResourceId |-> Undefined,
                                 nargs |-> 4])]

\* Response.send(event, context, status, data, physicalResourceId)
Send5(w, status, data, physicalResourceId) ==
  [w EXCEPT !.sends = Append(@, [status |-> status, data |-> data,
                                 physicalResourceId |-> physicalResourceId,
                                 nargs |-> 5])]

\* cwe.<op>(params, cb): the call is issued, cb fires later; closure is the
\* name the callback captured (resourceName / physicalResourceId)
Call(w, op, params, cb, closure) ==
  [w EXCEPT !.calls = Append(@, [op |-> op, params |-> params]),
            !.pending = @ \cup {[op |-> op, cb |-> cb, closure |-> closure,
                                 seq |-> Len(w.calls) + 1]}]

\* an exception escapes the running function: nothing after it runs
Throw(w) == [w EXCEPT !.pc = "thrown"]

\* the running function returns
Return(w) ==
  IF w.pc = "thrown" THEN w
  ELSE [w EXCEPT !.pc = IF w.pending = {} THEN "done" ELSE "waiting"]

(***************************************************************************)
(* uniqueSuffix, the same function in both handlers.                       *)
(***************************************************************************)
\* the 20 of crypto.randomBytes(20)
RandomBytesLen == 20

\* the 13 of .slice(0, 13)
SuffixLen == 13

\* the alphabet of base64: value i is character i + 1
Base64Alphabet ==
  "ABCDEFGHIJKLMNOPQRSTUVWXYZabcdefghijklmnopqrstuvwxyz0123456789+/"

Base64Char(i) == SubSeq(Base64Alphabet, i + 1, i + 1)

\* buffer.toString('base64'): three bytes give four characters, a rest of two
\* bytes gives three characters and "=", a rest of one byte two and "=="
RECURSIVE Base64(_)
Base64(buffer) ==
  IF Len(buffer) = 0 THEN ""
  ELSE IF Len(buffer) = 1
  THEN Base64Char(buffer[1] \div 4) \o Base64Char((buffer[1] % 4) * 16)
         \o "=="
  ELSE IF Len(buffer) = 2
  THEN Base64Char(buffer[1] \div 4)
         \o Base64Char((buffer[1] % 4) * 16 + buffer[2] \div 16)
         \o Base64Char((buffer[2] % 16) * 4) \o "="
  ELSE Base64Char(buffer[1] \div 4)
         \o Base64Char((buffer[1] % 4) * 16 + buffer[2] \div 16)
         \o Base64Char((buffer[2] % 16) * 4 + buffer[3] \div 64)
         \o Base64Char(buffer[3] % 64)
         \o Base64(SubSeq(buffer, 4, Len(buffer)))

\* the characters the class [0-9a-zA-Z] holds: the first 62 of the alphabet
IsAlphanumeric(c) == \E i \in 1..62 : SubSeq(Base64Alphabet, i, i) = c

\* str.replace(/[^0-9a-zA-Z]/g, '')
RECURSIVE RemoveNonAlphanumeric(_)
RemoveNonAlphanumeric(str) ==
  IF Len(str) = 0 THEN ""
  ELSE (IF IsAlphanumeric(SubSeq(str, 1, 1)) THEN SubSeq(str, 1, 1) ELSE "")
         \o RemoveNonAlphanumeric(SubSeq(str, 2, Len(str)))

\* str.toUpperCase(): a-z are characters 27..52 of the alphabet, A-Z 1..26
RECURSIVE ToUpperCase(_)
ToUpperCase(str) ==
  IF Len(str) = 0 THEN ""
  ELSE LET c == SubSeq(str, 1, 1)
           lower == { i \in 27..52 : SubSeq(Base64Alphabet, i, i) = c }
       IN (IF lower = {} THEN c
           ELSE LET i == CHOOSE j \in lower : TRUE
                IN SubSeq(Base64Alphabet, i - 26, i - 26))
            \o ToUpperCase(SubSeq(str, 2, Len(str)))

\* uniqueSuffix, given what crypto.randomBytes returned
uniqueSuffix(randomBytes) ==
  SubSeq(ToUpperCase(RemoveNonAlphanumeric(Base64(randomBytes))), 1,
         Min({SuffixLen,
              Len(ToUpperCase(RemoveNonAlphanumeric(Base64(randomBytes))))}))

\* values of three random bytes: 0xFF 0xFF 0xFF is "////" in base64,
\* 0xFB 0xEF 0xBE "++++", 0x51 0x3E 0x10 "UT4Q", 0x69 0xB7 0x1D "abcd", and
\* 0x03 0xF0 0x3F "A/A/"
ByteTriples ==
  {<<255, 255, 255>>, <<251, 239, 190>>, <<81, 62, 16>>, <<105, 183, 29>>,
   <<3, 240, 63>>}

\* values of the last two random bytes: "//8=", "UT4=", "AAA="
BytePairs == {<<255, 255>>, <<81, 62>>, <<0, 0>>}

\* what crypto.randomBytes(20) returns: here 20 bytes made of at most two
\* different triples, alternating, and a pair
RandomBytes ==
  { a \o b \o a \o b \o a \o b \o p : a \in ByteTriples, b \in ByteTriples,
                                      p \in BytePairs }

(***************************************************************************)
(* lib/custom-cf-cw-events-rule.js                                         *)
(***************************************************************************)
Rule_optProp(ev, paramName, defaultValue) ==
  IF /\ paramName \in DOMAIN ev.ResourceProperties
     /\ ev.ResourceProperties[paramName] # Undefined
  THEN ev.ResourceProperties[paramName]
  ELSE defaultValue

\* the StackId regex with a slip: it never matches, the raw StackId is used
StackName_NoMatch(stackId) == stackId

\* event.StackId.replace(/^.*stack\/([^/]+)\/.*/g, '$1'): the greedy `.*`
\* picks the last "stack/" that is followed by a non-empty segment and a
\* "/"; a string that does not match is returned unchanged
StackName(stackId) ==
  LET n == Len(stackId)
      ch(i) == SubSeq(stackId, i, i)
      segEnd(i) == { j \in (i + 7)..n :
                       /\ ch(j) = "/"
                       /\ \A k \in (i + 6)..(j - 1) : ch(k) # "/" }
      starts == { i \in 1..n : /\ i + 5 <= n
                               /\ SubSeq(stackId, i, i + 5) = "stack/"
                               /\ segEnd(i) # {} }
  IN IF starts = {} THEN stackId
     ELSE LET i == Max(starts)
          IN SubSeq(stackId, i + 6, Min(segEnd(i)) - 1)

\* createCallback with a slip: SUCCESS echoes event.PhysicalResourceId
\* instead of the resolved name
Rule_createCallback_EchoesEventId(w, ev, resourceName, err, data) ==
  IF err # Null
  THEN Send4(LogErrorStack(w, err), FAILED, EmptyObj)
  ELSE Send5(w, SUCCESS, [Arn |-> Get(data, "RuleArn")], ev.PhysicalResourceId)

Rule_createCallback(w, ev, resourceName, err, data) ==
  IF err # Null
  THEN Send4(LogErrorStack(w, err), FAILED, EmptyObj)
  ELSE Send5(w, SUCCESS, [Arn |-> Get(data, "RuleArn")], resourceName)

\* createResource with a slip: on an Update the rule keeps the name it has
Rule_createResource_KeepsNameOnUpdate(w, ev, sfx) ==
  LET resourceName ==
        IF ev.RequestType = "Update"
        THEN ev.PhysicalResourceId
        ELSE Rule_optProp(ev, "Name",
               StackName(ev.StackId) \o "-" \o TemplateString(ev.LogicalResourceId)
                 \o "-" \o sfx)
      params ==
        [Name |-> resourceName,
         Description |-> Rule_optProp(ev, "Description", Undefined),
         EventPattern |-> Rule_optProp(ev, "EventPattern", Undefined),
         RoleArn |-> Rule_optProp(ev, "RoleArn", Undefined),
         ScheduleExpression |-> Rule_optProp(ev, "ScheduleExpression", Undefined),
         State |-> Rule_optProp(ev, "State", Undefined)]
  IN Call([w EXCEPT !.createResourceCalls = @ + 1, !.suffix = sfx],
          "putRule", params, "Rule_createCallback", resourceName)

\* createResource with a slip: State is not passed to putRule
Rule_createResource_NoState(w, ev, sfx) ==
  LET resourceName ==
        Rule_optProp(ev, "Name",
          StackName(ev.StackId) \o "-" \o TemplateString(ev.LogicalResourceId)
            \o "-" \o sfx)
      params ==
        [Name |-> resourceName,
         Description |-> Rule_optProp(ev, "Description", Undefined),
         EventPattern |-> Rule_optProp(ev, "EventPattern", Undefined),
         RoleArn |-> Rule_optProp(ev, "RoleArn", Undefined),
         ScheduleExpression |-> Rule_optProp(ev, "ScheduleExpression", Undefined),
         State |-> Undefined]
  IN Call([w EXCEPT !.createResourceCalls = @ + 1, !.suffix = sfx],
          "putRule", params, "Rule_createCallback", resourceName)

Rule_createResource(w, ev, sfx) ==
  LET resourceName ==
        Rule_optProp(ev, "Name",
          StackName(ev.StackId) \o "-" \o TemplateString(ev.LogicalResourceId)
            \o "-" \o sfx)
      params ==
        [Name |-> resourceName,
         Description |-> Rule_optProp(ev, "Description", Undefined),
         EventPattern |-> Rule_optProp(ev, "EventPattern", Undefined),
         RoleArn |-> Rule_optProp(ev, "RoleArn", Undefined),
         ScheduleExpression |-> Rule_optProp(ev, "ScheduleExpression", Undefined),
         State |-> Rule_optProp(ev, "State", Undefined)]
  IN Call([w EXCEPT !.createResourceCalls = @ + 1, !.suffix = sfx],
          "putRule", params, "Rule_createCallback", resourceName)

\* deleteCallback with a slip: the failure echoes the physical id, as the
\* callbacks of updateResource do
Rule_deleteCallback_EchoesId(w, ev, err) ==
  IF err # Null
  THEN Send5(LogErrorStack(w, err), FAILED, EmptyObj, ev.PhysicalResourceId)
  ELSE Send5(w, SUCCESS, EmptyObj, ev.PhysicalResourceId)

Rule_deleteCallback(w, ev, err) ==
  IF err # Null
  THEN Send4(LogErrorStack(w, err), FAILED, EmptyObj)
  ELSE Send5(w, SUCCESS, EmptyObj, ev.PhysicalResourceId)

\* deleteResource with a slip: the rule is named by the desired Name
Rule_deleteResource_ByDesiredName(w, ev) ==
  Call(w, "deleteRule", [Name |-> Rule_optProp(ev, "Name", Undefined)],
       "Rule_deleteCallback", Undefined)

\* deleteResource with a slip: it cascades, removing the targets of the rule
Rule_deleteResource_Cascades(w, ev) ==
  Call(w, "removeTargets",
       [Rule |-> ev.PhysicalResourceId, Ids |-> <<OtherTarget.Id>>],
       "Rule_deleteCallback", Undefined)

Rule_deleteResource(w, ev) ==
  Call(w, "deleteRule", [Name |-> ev.PhysicalResourceId],
       "Rule_deleteCallback", Undefined)

\* updateCallback with a slip: the `return` of the error branch is missing
Rule_updateCallback_NoReturn(w, ev, err) ==
  LET w1 == IF err # Null
            THEN Send5(LogErrorStack(w, err), FAILED, EmptyObj,
                       ev.PhysicalResourceId)
            ELSE w
  IN Send5(w1, SUCCESS, ev.ResourceProperties, ev.PhysicalResourceId)

Rule_updateCallback(w, ev, err) ==
  IF err # Null
  THEN Send5(LogErrorStack(w, err), FAILED, EmptyObj, ev.PhysicalResourceId)
  ELSE Send5(w, SUCCESS, ev.ResourceProperties, ev.PhysicalResourceId)

\* the replacement test with a slip: State is compared as well
NeedsReplacement_WithState(ev, data) ==
  \/ Get(data, "Name") # Rule_optProp(ev, "Name", Undefined)
  \/ Get(data, "Arn") # Rule_optProp(ev, "Arn", Undefined)
  \/ Get(data, "EventPattern") # Rule_optProp(ev, "EventPattern", Undefined)
  \/ Get(data, "ScheduleExpression") # Rule_optProp(ev, "ScheduleExpression", Undefined)
  \/ Get(data, "Description") # Rule_optProp(ev, "Description", Undefined)
  \/ Get(data, "RoleArn") # Rule_optProp(ev, "RoleArn", Undefined)
  \/ Get(data, "State") # Rule_optProp(ev, "State", Undefined)

\* the replacement test with a slip: Description is not compared
NeedsReplacement_NoDescription(ev, data) ==
  \/ Get(data, "Name") # Rule_optProp(ev, "Name", Undefined)
  \/ Get(data, "Arn") # Rule_optProp(ev, "Arn", Undefined)
  \/ Get(data, "EventPattern") # Rule_optProp(ev, "EventPattern", Undefined)
  \/ Get(data, "ScheduleExpression") # Rule_optProp(ev, "ScheduleExpression", Undefined)
  \/ Get(data, "RoleArn") # Rule_optProp(ev, "RoleArn", Undefined)

\* the replacement test with a slip: Arn is not compared
NeedsReplacement_NoArn(ev, data) ==
  \/ Get(data, "Name") # Rule_optProp(ev, "Name", Undefined)
  \/ Get(data, "EventPattern") # Rule_optProp(ev, "EventPattern", Undefined)
  \/ Get(data, "ScheduleExpression") # Rule_optProp(ev, "ScheduleExpression", Undefined)
  \/ Get(data, "Description") # Rule_optProp(ev, "Description", Undefined)
  \/ Get(data, "RoleArn") # Rule_optProp(ev, "RoleArn", Undefined)

\* the test of describeCallback that decides replacement
NeedsReplacement(ev, data) ==
  \/ Get(data, "Name") # Rule_optProp(ev, "Name", Undefined)
  \/ Get(data, "Arn") # Rule_optProp(ev, "Arn", Undefined)
  \/ Get(data, "EventPattern") # Rule_optProp(ev, "EventPattern", Undefined)
  \/ Get(data, "ScheduleExpression") # Rule_optProp(ev, "ScheduleExpression", Undefined)
  \/ Get(data, "Description") # Rule_optProp(ev, "Description", Undefined)
  \/ Get(data, "RoleArn") # Rule_optProp(ev, "RoleArn", Undefined)

\* describeCallback with a slip: the two cases of the switch are swapped
Rule_describeCallback_Swapped(w, ev, sfx, err, data) ==
  IF err # Null
  THEN Send5(LogErrorStack(w, err), FAILED, EmptyObj, ev.PhysicalResourceId)
  ELSE IF NeedsReplacement(ev, data)
  THEN Rule_createResource(w, ev, sfx)
  ELSE IF Get(data, "State") = Rule_optProp(ev, "State", Undefined)
  THEN Send5(w, SUCCESS, EmptyObj, ev.PhysicalResourceId)
  ELSE IF Rule_optProp(ev, "State", Undefined) = "ENABLED"
  THEN Call(w, "disableRule", [Name |-> ev.PhysicalResourceId],
            "Rule_updateCallback", Undefined)
  ELSE IF Rule_optProp(ev, "State", Undefined) = "DISABLED"
  THEN Call(w, "enableRule", [Name |-> ev.PhysicalResourceId],
            "Rule_updateCallback", Undefined)
  ELSE Send5(LogNewError(w,
               "Unknown 'State' value. Must be either 'ENABLED' or 'DISABLED', was '"
                 \o TemplateString(Rule_optProp(ev, "State", Undefined)) \o "'."),
             FAILED, EmptyObj, ev.PhysicalResourceId)

\* describeCallback with a slip: the test for an unchanged State is missing
Rule_describeCallback_NoOpCalls(w, ev, sfx, err, data) ==
  IF err # Null
  THEN Send5(LogErrorStack(w, err), FAILED, EmptyObj, ev.PhysicalResourceId)
  ELSE IF NeedsReplacement(ev, data)
  THEN Rule_createResource(w, ev, sfx)
  ELSE IF Rule_optProp(ev, "State", Undefined) = "ENABLED"
  THEN Call(w, "enableRule", [Name |-> ev.PhysicalResourceId],
            "Rule_updateCallback", Undefined)
  ELSE IF Rule_optProp(ev, "State", Undefined) = "DISABLED"
  THEN Call(w, "disableRule", [Name |-> ev.PhysicalResourceId],
            "Rule_updateCallback", Undefined)
  ELSE Send5(LogNewError(w,
               "Unknown 'State' value. Must be either 'ENABLED' or 'DISABLED', was '"
                 \o TemplateString(Rule_optProp(ev, "State", Undefined)) \o "'."),
             FAILED, EmptyObj, ev.PhysicalResourceId)

\* describeCallback with a slip: the invalid-State outcome omits the
\* physical id
Rule_describeCallback_InvalidNoId(w, ev, sfx, err, data) ==
  IF err # Null
  THEN Send5(LogErrorStack(w, err), FAILED, EmptyObj, ev.PhysicalResourceId)
  ELSE IF NeedsReplacement(ev, data)
  THEN Rule_createResource(w, ev, sfx)
  ELSE IF Get(data, "State") = Rule_optProp(ev, "State", Undefined)
  THEN Send5(w, SUCCESS, EmptyObj, ev.PhysicalResourceId)
  ELSE IF Rule_optProp(ev, "State", Undefined) = "ENABLED"
  THEN Call(w, "enableRule", [Name |-> ev.PhysicalResourceId],
            "Rule_updateCallback", Undefined)
  ELSE IF Rule_optProp(ev, "State", Undefined) = "DISABLED"
  THEN Call(w, "disableRule", [Name |-> ev.PhysicalResourceId],
            "Rule_updateCallback", Undefined)
  ELSE Send4(LogNewError(w,
               "Unknown 'State' value. Must be either 'ENABLED' or 'DISABLED', was '"
                 \o TemplateString(Rule_optProp(ev, "State", Undefined)) \o "'."),
             FAILED, EmptyObj)

Rule_describeCallback(w, ev, sfx, err, data) ==
  IF err # Null
  THEN Send5(LogErrorStack(w, err), FAILED, EmptyObj, ev.PhysicalResourceId)
  ELSE IF NeedsReplacement(ev, data)
  THEN Rule_createResource(w, ev, sfx)
  ELSE IF Get(data, "State") = Rule_optProp(ev, "State", Undefined)
  THEN Send5(w, SUCCESS, EmptyObj, ev.PhysicalResourceId)
  ELSE IF Rule_optProp(ev, "State", Undefined) = "ENABLED"
  THEN Call(w, "enableRule", [Name |-> ev.PhysicalResourceId],
            "Rule_updateCallback", Undefined)
  ELSE IF Rule_optProp(ev, "State", Undefined) = "DISABLED"
  THEN Call(w, "disableRule", [Name |-> ev.PhysicalResourceId],
            "Rule_updateCallback", Undefined)
  ELSE Send5(LogNewError(w,
               "Unknown 'State' value. Must be either 'ENABLED' or 'DISABLED', was '"
                 \o TemplateString(Rule_optProp(ev, "State", Undefined)) \o "'."),
             FAILED, EmptyObj, ev.PhysicalResourceId)

\* updateResource with a slip: the rule is described by the desired Name
Rule_updateResource_ByDesiredName(w, ev) ==
  Call(w, "describeRule", [Name |-> Rule_optProp(ev, "Name", Undefined)],
       "Rule_describeCallback", Undefined)

\* updateResource with a slip: the rule is put while describeRule is still
\* outstanding
Rule_updateResource_AlsoPuts(w, ev) ==
  Rule_createResource(
    Call(w, "describeRule", [Name |-> ev.PhysicalResourceId],
         "Rule_describeCallback", Undefined),
    ev, "UT4QDIDSRK4IK")

Rule_updateResource(w, ev) ==
  Call(w, "describeRule", [Name |-> ev.PhysicalResourceId],
       "Rule_describeCallback", Undefined)

Rule_handler(w, ev, sfx) ==
  LET w1 == LogInfo(w, "event")
  IN CASE ev.RequestType = "Create" -> Rule_createResource(w1, ev, sfx)
       [] ev.RequestType = "Delete" -> Rule_deleteResource(w1, ev)
       [] ev.RequestType = "Update" -> Rule_updateResource(w1, ev)
       [] OTHER ->
            Send4(LogNewError(w1, "ERROR: Unknown event.RequestType provided: "
                                    \o TemplateString(ev.RequestType)),
                  FAILED, EmptyObj)

(***************************************************************************)
(* lib/custom-cf-cw-events-target.js                                       *)
(***************************************************************************)
\* "maximum length for AWSEvents_<rulename>_<targetname> must have length
\* less than or equal to 100"
MaxCompositeNameLen == 100

\* "maximum length for Target Id is 64 characters"
MaxTargetIdLen == 64

\* the 50 of `${event.LogicalResourceId}`.slice(0,50)
TargetIdPrefixLen == 50

\* slice with a slip: the string is not shortened
Slice0_NoLimit(str, end) == str

\* str.slice(0, end)
Slice0(str, end) == SubSeq(str, 1, Min({end, Len(str)}))

Target_optProp(ev, paramName, defaultValue, property) ==
  IF /\ paramName \in DOMAIN ev.ResourceProperties
     /\ ev.ResourceProperties[paramName] # Undefined
  THEN IF property # Undefined
       THEN Property(ev.ResourceProperties[paramName], property)
       ELSE ev.ResourceProperties[paramName]
  ELSE defaultValue

\* `data.FailedEntryCount && data.FailedEntryCount > 0`
HasFailedEntries(data) ==
  /\ "FailedEntryCount" \in DOMAIN data
  /\ data.FailedEntryCount > 0

\* the loop `for (e = 0; e < data.FailedEntryCount; e += 1) log.error(new
\* Error(...FailedEntries[e]...))`: it logs entry after entry and a TypeError
\* escapes at the first e that FailedEntries does not hold
LogFailedEntries(w, data) ==
  LET entries == IF "FailedEntries" \in DOMAIN data THEN data.FailedEntries
                                                    ELSE <<>>
      logged == Min({data.FailedEntryCount, Len(entries)})
      w1 == [w EXCEPT !.log = @ \o
               [e \in 1..logged |->
                  [level |-> "error",
                   message |-> "ERROR: " \o entries[e].ErrorCode \o ": "
                                  \o entries[e].ErrorMessage,
                   stack |-> Undefined, nargs |-> 1]]]
  IN IF logged < data.FailedEntryCount THEN Throw(w1) ELSE w1

\* createCallback with a slip: after a transport error the call is retried
Target_createCallback_Retries(w, ev, physicalResourceId, err, data) ==
  IF err # Null
  THEN Call(LogErrorStack(w, err), "putTargets", w.calls[Len(w.calls)].params,
            "Target_createCallback", physicalResourceId)
  ELSE IF HasFailedEntries(data)
  THEN LET w1 == LogFailedEntries(w, data)
       IN IF w1.pc = "thrown" THEN w1 ELSE Send4(w1, FAILED, EmptyObj)
  ELSE Send5(w, SUCCESS, EmptyObj, physicalResourceId)

Target_createCallback(w, ev, physicalResourceId, err, data) ==
  IF err # Null
  THEN Send4(LogErrorStack(w, err), FAILED, EmptyObj)
  ELSE IF HasFailedEntries(data)
  THEN LET w1 == LogFailedEntries(w, data)
       IN IF w1.pc = "thrown" THEN w1 ELSE Send4(w1, FAILED, EmptyObj)
  ELSE Send5(w, SUCCESS, EmptyObj, physicalResourceId)

\* the loop that deletes the properties of params.Targets[0] that are
\* `== undefined`; the InputTransformer object never is
RemoveUndefined(target) ==
  [k \in {j \in DOMAIN target :
            j = "InputTransformer" \/ target[j] # Undefined} |-> target[k]]

\* createResource with a slip: the Id is prefixed with the stack name, as the
\* name of a rule is
Target_createResource_StackPrefixed(w, ev, sfx) ==
  LET physicalResourceId ==
        IF ev.RequestType = "Update"
        THEN ev.PhysicalResourceId
        ELSE StackName(ev.StackId) \o "-"
               \o Slice0(TemplateString(ev.LogicalResourceId), TargetIdPrefixLen)
               \o "-" \o sfx
      target ==
        [Id |-> physicalResourceId,
         Arn |-> Target_optProp(ev, "Arn", Undefined, Undefined),
         EcsParameters |-> Target_optProp(ev, "EcsParameters", Undefined, Undefined),
         Input |-> Target_optProp(ev, "Input", Undefined, Undefined),
         InputPath |-> Target_optProp(ev, "InputPath", Undefined, Undefined),
         InputTransformer |->
           [InputPathsMap |-> Target_optProp(ev, "InputTransformer", "{}", "InputPathsMap"),
            InputTemplate |-> Target_optProp(ev, "InputTransformer", "", "InputTemplate")],
         KinesisParameters |-> Target_optProp(ev, "KinesisParameters", Undefined, Undefined),
         RoleArn |-> Target_optProp(ev, "RoleArn", Undefined, Undefined),
         RunCommandParameters |-> Target_optProp(ev, "RunCommandParameters", Undefined, Undefined)]
      params == [Rule |-> Target_optProp(ev, "Rule", Undefined, Undefined),
                 Targets |-> <<RemoveUndefined(target)>>]
  IN Call(LogInfo([w EXCEPT !.createResourceCalls = @ + 1, !.suffix = sfx],
                  "CloudWatchEvents PutTargets"),
          "putTargets", params, "Target_createCallback", physicalResourceId)

\* createResource with a slip: the Update takes over
\* event.PhysicalResourceId only after the target has been built
Target_createResource_LateOverride(w, ev, sfx) ==
  LET newId ==
        Slice0(TemplateString(ev.LogicalResourceId), TargetIdPrefixLen)
          \o "-" \o sfx
      physicalResourceId ==
        IF ev.RequestType = "Update" THEN ev.PhysicalResourceId ELSE newId
      target ==
        [Id |-> newId,
         Arn |-> Target_optProp(ev, "Arn", Undefined, Undefined),
         EcsParameters |-> Target_optProp(ev, "EcsParameters", Undefined, Undefined),
         Input |-> Target_optProp(ev, "Input", Undefined, Undefined),
         InputPath |-> Target_optProp(ev, "InputPath", Undefined, Undefined),
         InputTransformer |->
           [InputPathsMap |-> Target_optProp(ev, "InputTransformer", "{}", "InputPathsMap"),
            InputTemplate |-> Target_optProp(ev, "InputTransformer", "", "InputTemplate")],
         KinesisParameters |-> Target_optProp(ev, "KinesisParameters", Undefined, Undefined),
         RoleArn |-> Target_optProp(ev, "RoleArn", Undefined, Undefined),
         RunCommandParameters |-> Target_optProp(ev, "RunCommandParameters", Undefined, Undefined)]
      params == [Rule |-> Target_optProp(ev, "Rule", Undefined, Undefined),
                 Targets |-> <<RemoveUndefined(target)>>]
  IN Call(LogInfo([w EXCEPT !.createResourceCalls = @ + 1, !.suffix = sfx],
                  "CloudWatchEvents PutTargets"),
          "putTargets", params, "Target_createCallback", physicalResourceId)

\* createResource with a slip: an Update does not take over
\* event.PhysicalResourceId, it derives a new Id as a Create does
Target_createResource_NoUpdateOverride(w, ev, sfx) ==
  LET physicalResourceId ==
        Slice0(TemplateString(ev.LogicalResourceId), TargetIdPrefixLen)
          \o "-" \o sfx
      target ==
        [Id |-> physicalResourceId,
         Arn |-> Target_optProp(ev, "Arn", Undefined, Undefined),
         EcsParameters |-> Target_optProp(ev, "EcsParameters", Undefined, Undefined),
         Input |-> Target_optProp(ev, "Input", Undefined, Undefined),
         InputPath |-> Target_optProp(ev, "InputPath", Undefined, Undefined),
         InputTransformer |->
           [InputPathsMap |-> Target_optProp(ev, "InputTransformer", "{}", "InputPathsMap"),
            InputTemplate |-> Target_optProp(ev, "InputTransformer", "", "InputTemplate")],
         KinesisParameters |-> Target_optProp(ev, "KinesisParameters", Undefined, Undefined),
         RoleArn |-> Target_optProp(ev, "RoleArn", Undefined, Undefined),
         RunCommandParameters |-> Target_optProp(ev, "RunCommandParameters", Undefined, Undefined)]
      params == [Rule |-> Target_optProp(ev, "Rule", Undefined, Undefined),
                 Targets |-> <<RemoveUndefined(target)>>]
  IN Call(LogInfo([w EXCEPT !.createResourceCalls = @ + 1, !.suffix = sfx],
                  "CloudWatchEvents PutTargets"),
          "putTargets", params, "Target_createCallback", physicalResourceId)

Target_createResource(w, ev, sfx) ==
  LET physicalResourceId ==
        IF ev.RequestType = "Update"
        THEN ev.PhysicalResourceId
        ELSE Slice0(TemplateString(ev.LogicalResourceId), TargetIdPrefixLen)
               \o "-" \o sfx
      target ==
        [Id |-> physicalResourceId,
         Arn |-> Target_optProp(ev, "Arn", Undefined, Undefined),
         EcsParameters |-> Target_optProp(ev, "EcsParameters", Undefined, Undefined),
         Input |-> Target_optProp(ev, "Input", Undefined, Undefined),
         InputPath |-> Target_optProp(ev, "InputPath", Undefined, Undefined),
         InputTransformer |->
           [InputPathsMap |-> Target_optProp(ev, "InputTransformer", "{}", "InputPathsMap"),
            InputTemplate |-> Target_optProp(ev, "InputTransformer", "", "InputTemplate")],
         KinesisParameters |-> Target_optProp(ev, "KinesisParameters", Undefined, Undefined),
         RoleArn |-> Target_optProp(ev, "RoleArn", Undefined, Undefined),
         RunCommandParameters |-> Target_optProp(ev, "RunCommandParameters", Undefined, Undefined)]
      params == [Rule |-> Target_optProp(ev, "Rule", Undefined, Undefined),
                 Targets |-> <<RemoveUndefined(target)>>]
  IN Call(LogInfo([w EXCEPT !.createResourceCalls = @ + 1, !.suffix = sfx],
                  "CloudWatchEvents PutTargets"),
          "putTargets", params, "Target_createCallback", physicalResourceId)

\* deleteCallback with a slip: the failed entries of removeTargets are not
\* looked at
Target_deleteCallback_IgnoresEntries(w, ev, err, data) ==
  IF err # Null
  THEN Send4(LogErrorStack(w, err), FAILED, EmptyObj)
  ELSE Send5(w, SUCCESS, EmptyObj, ev.PhysicalResourceId)

Target_deleteCallback(w, ev, err, data) ==
  IF err # Null
  THEN Send4(LogErrorStack(w, err), FAILED, EmptyObj)
  ELSE IF HasFailedEntries(data)
  THEN LET w1 == LogFailedEntries(w, data)
       IN IF w1.pc = "thrown" THEN w1 ELSE Send4(w1, FAILED, EmptyObj)
  ELSE Send5(w, SUCCESS, EmptyObj, ev.PhysicalResourceId)

\* deleteResource with a slip: the target is named by its logical id
Target_deleteResource_ByLogicalId(w, ev) ==
  Call(LogInfo(w, "CloudWatchEvents RemoveTargets"),
       "removeTargets",
       [Rule |-> Target_optProp(ev, "Rule", Undefined, Undefined),
        Ids |-> <<ev.LogicalResourceId>>],
       "Target_deleteCallback", Undefined)

Target_deleteResource(w, ev) ==
  Call(LogInfo(w, "CloudWatchEvents RemoveTargets"),
       "removeTargets",
       [Rule |-> Target_optProp(ev, "Rule", Undefined, Undefined),
        Ids |-> <<ev.PhysicalResourceId>>],
       "Target_deleteCallback", Undefined)

\* handler with a slip: the switch has no default case of its own, an
\* unknown request type falls into 'Delete'
Target_handler_NoDefault(w, ev, sfx) ==
  LET w1 == LogInfo(w, "event")
  IN CASE ev.RequestType \in {"Update", "Create"} ->
            Target_createResource(w1, ev, sfx)
       [] OTHER -> Target_deleteResource(w1, ev)

\* handler with a slip: an Update removes the target, as a 'Delete' does
Target_handler_UpdateRemoves(w, ev, sfx) ==
  LET w1 == LogInfo(w, "event")
  IN CASE ev.RequestType = "Create" -> Target_createResource(w1, ev, sfx)
       [] ev.RequestType \in {"Update", "Delete"} ->
            Target_deleteResource(w1, ev)
       [] OTHER ->
            Send4(LogNewError(w1, "ERROR: Unknown event.RequestType provided: "
                                    \o TemplateString(ev.RequestType)),
                  FAILED, EmptyObj)

Target_handler(w, ev, sfx) ==
  LET w1 == LogInfo(w, "event")
  IN CASE ev.RequestType \in {"Update", "Create"} ->
            Target_createResource(w1, ev, sfx)
       [] ev.RequestType = "Delete" -> Target_deleteResource(w1, ev)
       [] OTHER ->
            Send4(LogNewError(w1, "ERROR: Unknown event.RequestType provided: "
                                    \o TemplateString(ev.RequestType)),
                  FAILED, EmptyObj)

(***************************************************************************)
(* Actions.                                                                *)
(***************************************************************************)
Events == RuleEvents \cup TargetEvents

Init ==
  /\ event \in Events
  /\ suffix = Undefined
  /\ pc = "start"
  /\ pending = {}
  /\ calls = <<>>
  /\ results = <<>>
  /\ sends = <<>>
  /\ log = <<>>
  /\ createResourceCalls = 0
  /\ bytes = <<>>
  /\ targets = {}
  /\ outcomes = <<>>
  /\ provider = NoProvider
  /\ inflight = <<>>

\* the callback of outstanding call p fires with result r
Deliver(p, r) ==
  [World EXCEPT !.pending = @ \ {p},
                !.results = Append(@, [err |-> r.err, data |-> r.data])]

RuleHandler ==
  \E sfx \in Suffixes :
    /\ pc = "start"
    /\ event.handler = "Rule"
    /\ SetWorld(Return(Rule_handler(World, event, sfx)))

RuleCreateCallback ==
  \E p \in pending : \E r \in PutRuleResults :
    /\ p.cb = "Rule_createCallback"
    /\ SetWorld(Return(Rule_createCallback(Deliver(p, r), event, p.closure,
                                           r.err, r.data)))

RuleDeleteCallback ==
  \E p \in pending : \E r \in EmptyResults :
    /\ p.cb = "Rule_deleteCallback"
    /\ SetWorld(Return(Rule_deleteCallback(Deliver(p, r), event, r.err)))

RuleDescribeCallback ==
  \E p \in pending : \E r \in DescribeRuleResults : \E sfx \in Suffixes :
    /\ p.cb = "Rule_describeCallback"
    /\ SetWorld(Return(Rule_describeCallback(Deliver(p, r), event, sfx,
                                             r.err, r.data)))

RuleUpdateCallback ==
  \E p \in pending : \E r \in EmptyResults :
    /\ p.cb = "Rule_updateCallback"
    /\ SetWorld(Return(Rule_updateCallback(Deliver(p, r), event, r.err)))

TargetHandler ==
  \E sfx \in Suffixes :
    /\ pc = "start"
    /\ event.handler = "Target"
    /\ SetWorld(Return(Target_handler(World, event, sfx)))

TargetCreateCallback ==
  \E p \in pending : \E r \in TargetResults :
    /\ p.cb = "Target_createCallback"
    /\ SetWorld(Return(Target_createCallback(Deliver(p, r), event, p.closure,
                                             r.err, r.data)))

TargetDeleteCallback ==
  \E p \in pending : \E r \in TargetResults :
    /\ p.cb = "Target_deleteCallback"
    /\ SetWorld(Return(Target_deleteCallback(Deliver(p, r), event,
                                             r.err, r.data)))

\* uniqueSuffix() on its own: crypto.randomBytes(20) has returned `bytes`;
\* the event plays no part
SuffixInit ==
  /\ bytes \in RandomBytes
  /\ event \in {e \in RuleEvents : e.RequestType = "Invalid"}
  /\ suffix = Undefined
  /\ pc = "start"
  /\ pending = {}
  /\ calls = <<>>
  /\ results = <<>>
  /\ sends = <<>>
  /\ log = <<>>
  /\ createResourceCalls = 0
  /\ targets = {}
  /\ outcomes = <<>>
  /\ provider = NoProvider
  /\ inflight = <<>>

UniqueSuffix ==
  /\ suffix = Undefined
  /\ Len(bytes) = RandomBytesLen
  /\ suffix' = uniqueSuffix(bytes)
  /\ UNCHANGED <<event, pc, pending, calls, results, sends, log,
                 createResourceCalls, bytes, targets, outcomes, provider,
                 inflight>>

SuffixNext == UniqueSuffix

SuffixSpec == SuffixInit /\ [][SuffixNext]_vars

\* the Target handler invoked MaxInvocations times with the same Update
\* event, against a provider whose targets are followed
UpsertInit ==
  /\ event \in {e \in TargetEvents : e.RequestType = "Update"}
  /\ targets \in ProviderTargets(event)
  /\ outcomes = <<>>
  /\ bytes = <<>>
  /\ suffix = Undefined
  /\ pc = "start"
  /\ pending = {}
  /\ calls = <<>>
  /\ results = <<>>
  /\ sends = <<>>
  /\ log = <<>>
  /\ createResourceCalls = 0
  /\ provider = NoProvider
  /\ inflight = <<>>

UpsertHandler ==
  \E sfx \in Suffixes :
    /\ pc = "start"
    /\ SetState(Return(Target_handler(World, event, sfx)))
    /\ UNCHANGED <<bytes, targets, outcomes, provider, inflight>>

\* the provider carries out the outstanding putTargets and its callback fires
UpsertPutTargets ==
  \E p \in pending : \E r \in PutTargetsReplies :
    /\ p.cb = "Target_createCallback"
    /\ targets' = ProviderAfter(targets, calls[p.seq].params, r)
    /\ SetState(Return(Target_createCallback(Deliver(p, r), event, p.closure,
                                             r.err, r.data)))
    /\ UNCHANGED <<bytes, outcomes, provider, inflight>>

\* the invocation has ended and the orchestrator sends the same event again
UpsertAgain ==
  /\ pc = "done"
  /\ Len(outcomes) < MaxInvocations - 1
  /\ outcomes' = Append(outcomes, [send |-> sends[1], targets |-> targets])
  /\ SetState(FreshWorld)
  /\ UNCHANGED <<bytes, targets, provider, inflight>>

UpsertNext ==
  \/ UpsertHandler
  \/ UpsertPutTargets
  \/ UpsertAgain

UpsertSpec == UpsertInit /\ [][UpsertNext]_vars

\* Target Create for a rule whose name is supplied or synthesized
NamingInit ==
  /\ event \in NamedRuleTargetEvents
  /\ suffix = Undefined
  /\ pc = "start"
  /\ pending = {}
  /\ calls = <<>>
  /\ results = <<>>
  /\ sends = <<>>
  /\ log = <<>>
  /\ createResourceCalls = 0
  /\ bytes = <<>>
  /\ targets = {}
  /\ outcomes = <<>>
  /\ provider = NoProvider
  /\ inflight = <<>>

NamingNext ==
  \/ TargetHandler
  \/ TargetCreateCallback

NamingSpec == NamingInit /\ [][NamingNext]_vars

\* exports.handler of the module the event is for
Handler(w, ev, sfx) ==
  IF ev.handler = "Rule" THEN Rule_handler(w, ev, sfx)
                         ELSE Target_handler(w, ev, sfx)

\* the callback given with outstanding call p, called with result r
Callback(w, ev, p, sfx, r) ==
  CASE p.cb = "Rule_createCallback" ->
         Rule_createCallback(w, ev, p.closure, r.err, r.data)
    [] p.cb = "Rule_deleteCallback" -> Rule_deleteCallback(w, ev, r.err)
    [] p.cb = "Rule_describeCallback" ->
         Rule_describeCallback(w, ev, sfx, r.err, r.data)
    [] p.cb = "Rule_updateCallback" -> Rule_updateCallback(w, ev, r.err)
    [] p.cb = "Target_createCallback" ->
         Target_createCallback(w, ev, p.closure, r.err, r.data)
    [] p.cb = "Target_deleteCallback" ->
         Target_deleteCallback(w, ev, r.err, r.data)

\* an Update of a rule or of a target, or a Delete of a rule, against a
\* provider whose rules and targets are followed; after a rule was replaced
\* the orchestrator deletes the old one
ProviderInit ==
  /\ event \in {e \in RuleEvents \cup TargetEvents : e.RequestType = "Update"}
               \cup {e \in RuleEvents : e.RequestType = "Delete"}
  /\ provider \in ProviderStates(event)
  /\ suffix = Undefined
  /\ pc = "start"
  /\ pending = {}
  /\ calls = <<>>
  /\ results = <<>>
  /\ sends = <<>>
  /\ log = <<>>
  /\ createResourceCalls = 0
  /\ bytes = <<>>
  /\ targets = {}
  /\ outcomes = <<>>
  /\ inflight = <<>>

ProviderInvoke ==
  \E sfx \in Suffixes :
    /\ pc = "start"
    /\ SetState(Return(Handler(World, event, sfx)))
    /\ UNCHANGED <<bytes, targets, outcomes, provider, inflight>>

\* the provider carries out an outstanding call and its callback fires
ProviderRespond ==
  \E p \in pending : \E sfx \in Suffixes :
    \E r \in ProviderReplies(provider, p.op, calls[p.seq].params) :
      /\ provider' = ProviderApplied(provider, p.op, calls[p.seq].params, r)
      /\ SetState(Return(Callback(Deliver(p, r), event, p, sfx, r)))
      /\ UNCHANGED <<bytes, targets, outcomes, inflight>>

\* the Update of a rule returned SUCCESS with a new physical id: the
\* orchestrator sends Delete for the old one
OrchestratorDelete ==
  /\ event.handler = "Rule" /\ event.RequestType = "Update"
  /\ pc = "done"
  /\ Len(sends) = 1 /\ sends[1].status = SUCCESS
  /\ sends[1].physicalResourceId # event.PhysicalResourceId
  /\ event' = [event EXCEPT !.RequestType = "Delete"]
  /\ outcomes' = Append(outcomes, [send |-> sends[1],
                                   targets |-> provider.attached])
  /\ pc' = "start"
  /\ pending' = {}
  /\ calls' = <<>>
  /\ results' = <<>>
  /\ sends' = <<>>
  /\ log' = <<>>
  /\ createResourceCalls' = 0
  /\ suffix' = Undefined
  /\ UNCHANGED <<bytes, targets, provider, inflight>>

ProviderNext ==
  \/ ProviderInvoke
  \/ ProviderRespond
  \/ OrchestratorDelete

ProviderSpec == ProviderInit /\ [][ProviderNext]_vars

\* the world of an invocation when the callback of its call p is called
\* with result r
DeliverTo(w, p, r) ==
  [w EXCEPT !.pending = @ \ {p},
            !.results = Append(@, [err |-> r.err, data |-> r.data])]

\* the event a callback of invocation i reads: event is a parameter of the
\* function that encloses the callback, bound anew by every call of it
ClosureEvent_ModuleLevel(inv, i) == inv[Len(inv)].event

ClosureEvent(inv, i) == inv[i].event

\* several invocations in one process: the handlers run as the invocations
\* arrive and the callbacks fire later, in any order
ConcurrentInit ==
  /\ inflight \in [1..MaxInFlight -> [event : ConcurrentEvents, w : {FreshWorld}]]
  /\ event = [handler |-> "Rule", RequestType |-> "Invalid"]
  /\ suffix = Undefined
  /\ pc = "start"
  /\ pending = {}
  /\ calls = <<>>
  /\ results = <<>>
  /\ sends = <<>>
  /\ log = <<>>
  /\ createResourceCalls = 0
  /\ bytes = <<>>
  /\ targets = {}
  /\ outcomes = <<>>
  /\ provider = NoProvider

\* an invocation arrives and its handler runs to its end
ConcurrentHandler ==
  \E i \in 1..Len(inflight) : \E sfx \in Suffixes :
    /\ inflight[i].w.pc = "start"
    /\ inflight' = [inflight EXCEPT
                      ![i].w = Return(Handler(@, inflight[i].event, sfx))]
    /\ UNCHANGED <<event, suffix, pc, pending, calls, results, sends, log,
                   createResourceCalls, bytes, targets, outcomes, provider>>

ConcurrentCallback ==
  \E i \in 1..Len(inflight) : \E p \in inflight[i].w.pending :
    \E r \in ConcurrentResults(p.op) :
      \E sfx \in Suffixes :
        /\ inflight[i].w.pc = "waiting"
        /\ inflight' = [inflight EXCEPT
                          ![i].w = Return(Callback(DeliverTo(@, p, r),
                                                   ClosureEvent(inflight, i),
                                                   p, sfx, r))]
        /\ UNCHANGED <<event, suffix, pc, pending, calls, results, sends, log,
                       createResourceCalls, bytes, targets, outcomes, provider>>

ConcurrentNext ==
  \/ ConcurrentHandler
  \/ ConcurrentCallback

ConcurrentSpec == ConcurrentInit /\ [][ConcurrentNext]_vars

Next ==
  \/ RuleHandler
  \/ RuleCreateCallback
  \/ RuleDeleteCallback
  \/ RuleDescribeCallback
  \/ RuleUpdateCallback
  \/ TargetHandler
  \/ TargetCreateCallback
  \/ TargetDeleteCallback

Spec == Init /\ [][Next]_vars

TypeOK ==
  /\ pc \in {"start", "waiting", "done", "thrown"}
  /\ createResourceCalls \in 0..1
  /\ Cardinality(pending) <= 1
  /\ Len(calls) <= 2

(***************************************************************************)
(* Vocabulary of the properties.                                           *)
(***************************************************************************)
IsRule(requestType) ==
  event.handler = "Rule" /\ event.RequestType = requestType

IsTarget(requestType) ==
  event.handler = "Target" /\ event.RequestType = requestType

\* how many calls of provider operation op the invocation has issued
CountCalls(op) == Cardinality({i \in 1..Len(calls) : calls[i].op = op})

\* the log.error calls so far, in order
ErrorLog == SelectSeq(log, LAMBDA l : l.level = "error")

\* the i-th provider call has returned, without / with a transport error
Succeeded(i) == i <= Len(results) /\ results[i].err = Null
Failed(i) == i <= Len(results) /\ results[i].err # Null

\* describeRule has returned the current rule
Described == IsRule("Update") /\ Succeeded(1)
Current == results[1].data
Desired == event.ResourceProperties

\* the six compared fields of the current and the desired rule agree
SameComparedFields ==
  \A f \in ComparedFields : Get(Current, f) = Get(Desired, f)

\* the outcome Response.send was given, as (status, data, physicalResourceId)
Outcome(status, data, physicalResourceId) ==
  [status |-> status, data |-> data,
   physicalResourceId |-> physicalResourceId, nargs |-> 5]

(***************************************************************************)
(* Properties.                                                             *)
(***************************************************************************)

\* C1: in both handlers, for every request type and every provider result,
\* Response.send is called at most once per invocation.
C1_SendAtMostOnce == Len(sends) <= 1

\* C1 witness: a Rule Update that made two provider calls has sent its one
\* outcome.
C1_Witness ==
  /\ IsRule("Update") /\ pc = "done" /\ Len(calls) = 2 /\ Len(sends) = 1

\* C2: every invocation of either handler ends with send called exactly
\* once, whatever the provider returned (an error, or data with any
\* FailedEntryCount and any FailedEntries list, also one shorter than the
\* count): once the handler has returned or thrown and no provider call is
\* outstanding, exactly one outcome has been sent, and nothing was thrown.
C2_EndsWithExactlyOneSend ==
  pc \in {"done", "thrown"} => (pc = "done" /\ Len(sends) = 1)

\* C3: every outcome sent carries a non-empty physicalResourceId, except a
\* FAILED outcome of a Create request and the FAILED outcome of an unknown
\* request type; FAILED outcomes of Update and Delete carry it.
C3_OutcomeCarriesPhysicalId ==
  \A i \in 1..Len(sends) :
    \/ sends[i].status = FAILED /\ event.RequestType = "Create"
    \/ sends[i].status = FAILED
         /\ event.RequestType \notin {"Create", "Update", "Delete"}
    \/ /\ sends[i].nargs = 5
       /\ sends[i].physicalResourceId # Undefined
       /\ Len(sends[i].physicalResourceId) > 0

\* C4: Rule Update: when the current rule returned by describeRule and the
\* desired ResourceProperties differ only in State, the replacement path is
\* not taken: createResource is not invoked and putRule is never called.
C4_StateChangeNeverReplaces ==
  (Described /\ SameComparedFields /\ Get(Current, "State") # Get(Desired, "State"))
    => (createResourceCalls = 0 /\ CountCalls("putRule") = 0)

\* C4 witness: only State differs (ENABLED now, DISABLED desired) and the
\* update went on to disableRule.
C4_Witness ==
  /\ Described /\ SameComparedFields
  /\ Get(Current, "State") = "ENABLED" /\ Get(Desired, "State") = "DISABLED"
  /\ Len(calls) = 2 /\ calls[2].op = "disableRule"

\* C5: Rule Update: when describeRule succeeds and the current rule differs
\* from the desired one in any of Name, Arn, EventPattern,
\* ScheduleExpression, Description, RoleArn, then createResource is invoked
\* exactly once for the same event, exactly one putRule call is made, neither
\* enableRule nor disableRule is called, and the outcome sent is the one of
\* the create path, never the describeRule result.
C5_OtherChangeReplacesOnce ==
  (Described /\ ~SameComparedFields)
    => /\ createResourceCalls = 1
       /\ CountCalls("putRule") = 1
       /\ CountCalls("enableRule") = 0 /\ CountCalls("disableRule") = 0
       /\ Len(calls) = 2 /\ calls[2].op = "putRule"
       /\ calls[2].params.Name =
            IF "Name" \in DOMAIN Desired
            THEN Desired.Name
            ELSE StackName(event.StackId) \o "-" \o event.LogicalResourceId
                   \o "-" \o suffix
       /\ \A f \in DOMAIN calls[2].params \ {"Name"} :
            calls[2].params[f] = Get(Desired, f)
       /\ Len(results) < 2 => sends = <<>>
       /\ Succeeded(2) =>
            /\ sends = <<Outcome(SUCCESS, [Arn |-> results[2].data.RuleArn],
                                 calls[2].params.Name)>>
            /\ sends[1].data # Current
       /\ Failed(2) =>
            sends = <<[status |-> FAILED, data |-> EmptyObj,
                       physicalResourceId |-> Undefined, nargs |-> 4]>>

\* C5 witness: only Description differs, the replacement rule was put and
\* the SUCCESS outcome of the create path was sent.
C5_Witness ==
  /\ Described
  /\ \A f \in ComparedFields \ {"Description"} : Get(Current, f) = Get(Desired, f)
  /\ Get(Current, "Description") # Get(Desired, "Description")
  /\ Succeeded(2) /\ Len(sends) = 1 /\ sends[1].status = SUCCESS

\* C6: Rule Update, in-place branch: when the six compared fields match and
\* the desired State differs from the current one, desired ENABLED causes
\* exactly one enableRule call and desired DISABLED exactly one disableRule
\* call, each with Name = event.PhysicalResourceId; when that call succeeds
\* the outcome is SUCCESS with data = the full event.ResourceProperties and
\* physicalResourceId = event.PhysicalResourceId.
C6_InPlaceEnableDisable ==
  \A st \in {"ENABLED", "DISABLED"} :
    (Described /\ SameComparedFields /\ Get(Desired, "State") = st
       /\ Get(Current, "State") # st)
      => LET op == IF st = "ENABLED" THEN "enableRule" ELSE "disableRule"
             other == IF st = "ENABLED" THEN "disableRule" ELSE "enableRule"
         IN /\ CountCalls(op) = 1 /\ CountCalls(other) = 0
            /\ calls[2] = [op |-> op,
                           params |-> [Name |-> event.PhysicalResourceId]]
            /\ Succeeded(2) =>
                 sends = <<Outcome(SUCCESS, event.ResourceProperties,
                                   event.PhysicalResourceId)>>

\* C6 witness: a DISABLED rule was enabled in place and SUCCESS was sent.
C6_Witness ==
  /\ Described /\ SameComparedFields
  /\ Get(Desired, "State") = "ENABLED" /\ Get(Current, "State") = "DISABLED"
  /\ Succeeded(2) /\ Len(sends) = 1 /\ sends[1].status = SUCCESS

\* C7: Rule Update no-op: when describeRule succeeds, none of the six
\* compared fields differ and the desired State equals the current State,
\* the outcome is SUCCESS with empty data and physicalResourceId =
\* event.PhysicalResourceId, and describeRule is the only provider call.
C7_NoOpUpdate ==
  (Described /\ SameComparedFields /\ Get(Desired, "State") = Get(Current, "State"))
    => /\ sends = <<Outcome(SUCCESS, EmptyObj, event.PhysicalResourceId)>>
       /\ Len(calls) = 1 /\ calls[1].op = "describeRule"
       /\ pc = "done"

\* C7 witness: the desired rule, Name and all, is the current one.
C7_Witness ==
  /\ Described /\ SameComparedFields
  /\ Get(Desired, "State") = "ENABLED" /\ Get(Current, "State") = "ENABLED"
  /\ "Name" \in DOMAIN Desired
  /\ pc = "done"

\* C8: Rule Update invalid state: when the six compared fields match, the
\* desired State differs from the current one and is neither ENABLED nor
\* DISABLED (also when absent), the outcome is FAILED with empty data and
\* physicalResourceId = event.PhysicalResourceId, exactly one error is
\* logged, with message "Unknown 'State' value. Must be either 'ENABLED' or
\* 'DISABLED', was '<value>'.", and no enableRule, disableRule or putRule
\* call is made.
C8_InvalidStateFails ==
  (Described /\ SameComparedFields
     /\ Get(Desired, "State") # Get(Current, "State")
     /\ Get(Desired, "State") \notin {"ENABLED", "DISABLED"})
    => /\ sends = <<Outcome(FAILED, EmptyObj, event.PhysicalResourceId)>>
       /\ Len(ErrorLog) = 1
       /\ ErrorLog[1].message =
            "Unknown 'State' value. Must be either 'ENABLED' or 'DISABLED', was '"
              \o (IF "State" \in DOMAIN Desired THEN Desired.State
                                                ELSE "undefined")
              \o "'."
       /\ CountCalls("enableRule") = 0 /\ CountCalls("disableRule") = 0
       /\ CountCalls("putRule") = 0

\* C8 witness: the desired State is UNKNOWN and the message names it.
C8_Witness ==
  /\ Described /\ SameComparedFields
  /\ Get(Desired, "State") = "UNKNOWN"
  /\ Len(ErrorLog) = 1
  /\ ErrorLog[1].message =
       "Unknown 'State' value. Must be either 'ENABLED' or 'DISABLED', was 'UNKNOWN'."

\* C9: Rule Update always issues describeRule with Name =
\* event.PhysicalResourceId as its first provider call, before any putRule,
\* enableRule or disableRule; and when describeRule, enableRule or
\* disableRule returns an error the outcome is FAILED with empty data and
\* physicalResourceId = event.PhysicalResourceId, with the error and its
\* stack logged.
C9_DescribeFirstAndFailures ==
  (IsRule("Update") /\ pc # "start")
    => /\ Len(calls) >= 1
       /\ calls[1] = [op |-> "describeRule",
                      params |-> [Name |-> event.PhysicalResourceId]]
       /\ \A i \in 1..Len(results) :
            (results[i].err # Null
               /\ calls[i].op \in {"describeRule", "enableRule", "disableRule"})
              => /\ sends = <<Outcome(FAILED, EmptyObj, event.PhysicalResourceId)>>
                 /\ ErrorLog = <<[level |-> "error",
                                  message |-> results[i].err.message,
                                  stack |-> results[i].err.stack,
                                  nargs |-> 2]>>

\* C9 witness: describeRule succeeded and the enableRule after it failed.
C9_Witness ==
  /\ IsRule("Update") /\ Len(calls) = 2 /\ calls[2].op = "enableRule"
  /\ Failed(2) /\ Len(sends) = 1

\* C10: Rule Create success: when putRule returns without error, the
\* outcome is SUCCESS with data = {Arn: <RuleArn returned by putRule>} and
\* physicalResourceId = the resolved name, which is ResourceProperties.Name
\* whenever Name is supplied; the same resolved name is the Name sent to
\* putRule.
C10_CreateSuccess ==
  (IsRule("Create") /\ Succeeded(1))
    => /\ sends = <<Outcome(SUCCESS, [Arn |-> results[1].data.RuleArn],
                            calls[1].params.Name)>>
       /\ "Name" \in DOMAIN Desired => calls[1].params.Name = Desired.Name

\* C10 witness: a Create that supplied a Name got the provider's Arn back.
C10_Witness ==
  /\ IsRule("Create") /\ Succeeded(1)
  /\ "Name" \in DOMAIN Desired
  /\ Len(sends) = 1 /\ sends[1].physicalResourceId = "events-rule-name"
  /\ sends[1].data = [Arn |-> "arn:aws:events:us-east-1:012345678901:rule/test-rule"]

\* the StackId is ARN-shaped: it names a stack as ...:stack/<name>/<uuid>
IsArnShaped(stackId) ==
  /\ SubSeq(stackId, 1, 4) = "arn:"
  /\ \E i \in 1..(Len(stackId) - 5) : SubSeq(stackId, i, i + 5) = "stack/"

\* seg is the path segment of stackId between the first "stack/" and the
\* next "/"
IsStackSegment(seg, stackId) ==
  \E i \in 1..(Len(stackId) - Len(seg) - 6) :
    /\ SubSeq(stackId, i, i + 5 + Len(seg) + 1) = "stack/" \o seg \o "/"
    /\ \A k \in 1..(i - 1) : SubSeq(stackId, k, k + 5) # "stack/"
    /\ \A k \in 1..Len(seg) : SubSeq(seg, k, k) # "/"

\* C11: Rule Create name synthesis: for every Create with no Name supplied,
\* the resolved name (the Name sent to putRule) is
\* "<stack>-<LogicalResourceId>-<uniqueSuffix()>", where <stack> is the path
\* segment of StackId between "stack/" and the next "/" when StackId is
\* ARN-shaped and the raw StackId otherwise.
C11_SynthesizedName ==
  (IsRule("Create") /\ "Name" \notin DOMAIN Desired /\ pc # "start")
    => LET name == calls[1].params.Name
           tail == "-" \o event.LogicalResourceId \o "-" \o suffix
           stack == SubSeq(name, 1, Len(name) - Len(tail))
       IN /\ calls[1].op = "putRule"
          /\ Len(name) > Len(tail)
          /\ SubSeq(name, Len(name) - Len(tail) + 1, Len(name)) = tail
          /\ IF IsArnShaped(event.StackId)
             THEN IsStackSegment(stack, event.StackId)
             ELSE stack = event.StackId

\* C11 witness: the name of the fixture, synthesized from an ARN-shaped
\* StackId, was sent to putRule and came back as the physical id.
C11_Witness ==
  /\ IsRule("Create") /\ "Name" \notin DOMAIN Desired
  /\ Len(sends) = 1
  /\ sends[1].physicalResourceId
       = "test-stack-name-LogicalResourceId123-UT4QDIDSRK4IK"
  /\ calls[1].params.Name = sends[1].physicalResourceId

\* the optional fields of putRule's parameter structure
PutRuleOptionalFields == {"Description", "EventPattern", "RoleArn",
                          "ScheduleExpression", "State"}

\* C12: Rule Create calls putRule exactly once with a parameter structure
\* that contains Name = the resolved name and each of Description,
\* EventPattern, RoleArn, ScheduleExpression, State that is present in
\* ResourceProperties with its value, and that contains no key, not even
\* with an undefined value, for any of those fields that is absent.
C12_PutRuleOmitsAbsentFields ==
  (IsRule("Create") /\ pc # "start")
    => /\ Len(calls) = 1 /\ calls[1].op = "putRule"
       /\ "Name" \in DOMAIN calls[1].params
       /\ "Name" \in DOMAIN Desired => calls[1].params.Name = Desired.Name
       /\ \A f \in PutRuleOptionalFields :
            IF f \in DOMAIN Desired
            THEN f \in DOMAIN calls[1].params
                   /\ calls[1].params[f] = Desired[f]
            ELSE f \notin DOMAIN calls[1].params

\* the log.error(err, err.stack) entry of a transport error
LoggedError(err) ==
  [level |-> "error", message |-> err.message, stack |-> err.stack,
   nargs |-> 2]

\* C13: in both handlers, whenever a provider call (putRule, deleteRule,
\* describeRule, enableRule, disableRule, putTargets, removeTargets) returns
\* a transport error, the outcome of the invocation is FAILED with empty
\* data, the error is logged, SUCCESS is never sent, and no further provider
\* call is issued: no retry and no fallback.
C13_TransportErrorIsTerminal ==
  \A i \in 1..Len(results) :
    results[i].err # Null
      => /\ Len(sends) = 1
         /\ sends[1].status = FAILED /\ sends[1].data = EmptyObj
         /\ ErrorLog = <<LoggedError(results[i].err)>>
         /\ Len(calls) = i /\ pending = {}
         /\ pc = "done"

\* C13 witness: putTargets of a Target Create returned a transport error.
C13_Witness ==
  /\ IsTarget("Create") /\ Failed(1) /\ calls[1].op = "putTargets"
  /\ Len(sends) = 1 /\ sends[1].status = FAILED

\* C14: Rule Delete calls deleteRule exactly once with {Name:
\* event.PhysicalResourceId}; when it succeeds the outcome is SUCCESS with
\* empty data and physicalResourceId = event.PhysicalResourceId.
C14_RuleDelete ==
  (IsRule("Delete") /\ pc # "start")
    => /\ calls = <<[op |-> "deleteRule",
                     params |-> [Name |-> event.PhysicalResourceId]]>>
       /\ Succeeded(1) =>
            sends = <<Outcome(SUCCESS, EmptyObj, event.PhysicalResourceId)>>

\* C14 witness: deleteRule succeeded and the outcome was sent.
C14_Witness ==
  /\ IsRule("Delete") /\ Succeeded(1) /\ pc = "done" /\ Len(sends) = 1

\* C15: on a Delete whose provider call returns an error (Rule: deleteRule,
\* Target: removeTargets), send is called with exactly the four arguments
\* (event, context, FAILED, {}), with no physicalResourceId argument, and the
\* error is logged as (err, err.stack).
C15_DeleteFailureSendsFourArguments ==
  (event.RequestType = "Delete" /\ Failed(1))
    => /\ calls[1].op = IF event.handler = "Rule" THEN "deleteRule"
                                                  ELSE "removeTargets"
       /\ sends = <<[status |-> FAILED, data |-> EmptyObj,
                     physicalResourceId |-> Undefined, nargs |-> 4]>>
       /\ ErrorLog = <<LoggedError(results[1].err)>>

\* C15 witness: removeTargets of a Target Delete returned an error.
C15_Witness ==
  /\ IsTarget("Delete") /\ Failed(1) /\ Len(sends) = 1 /\ sends[1].nargs = 4

\* C16: in both handlers, an event whose RequestType is outside {Create,
\* Update, Delete} produces a FAILED outcome with empty data and no
\* physicalResourceId, logs an error with message "ERROR: Unknown
\* event.RequestType provided: <RequestType>", and issues no provider call.
C16_UnknownRequestType ==
  (event.RequestType \notin {"Create", "Update", "Delete"} /\ pc # "start")
    => /\ sends = <<[status |-> FAILED, data |-> EmptyObj,
                     physicalResourceId |-> Undefined, nargs |-> 4]>>
       /\ Len(ErrorLog) = 1
       /\ ErrorLog[1].message
            = "ERROR: Unknown event.RequestType provided: " \o event.RequestType
       /\ calls = <<>> /\ pending = {}
       /\ pc = "done"

\* C16 witness: the Target handler was given the request type Invalid.
C16_Witness ==
  /\ event.handler = "Target" /\ event.RequestType = "Invalid"
  /\ Len(ErrorLog) = 1
  /\ ErrorLog[1].message = "ERROR: Unknown event.RequestType provided: Invalid"
  /\ Len(sends) = 1

\* the target structure of the first provider call, a putTargets
SentTarget == calls[1].params.Targets[1]

\* putTargets has been called once, with one target, and nothing else
OnePutTargets ==
  /\ Len(calls) = 1
  /\ calls[1].op = "putTargets"
  /\ Len(calls[1].params.Targets) = 1

\* id is the first 50 characters of the logical id, "-" and the suffix
IsResolvedId(id, logicalId, sfx) ==
  LET n == Min({TargetIdPrefixLen, Len(logicalId)})
  IN /\ Len(id) = n + 1 + Len(sfx)
     /\ SubSeq(id, 1, n) = SubSeq(logicalId, 1, n)
     /\ SubSeq(id, n + 1, Len(id)) = "-" \o sfx

C18_TargetCreateSuccessId ==
  (/\ IsTarget("Create") /\ Succeeded(1)
   /\ "FailedEntryCount" \in DOMAIN Current /\ Current.FailedEntryCount = 0)
    => sends = <<Outcome(SUCCESS, EmptyObj,
                         StackName(event.StackId) \o "-"
                           \o event.LogicalResourceId \o "-" \o suffix)>>

\* C19: on every Target Update, whatever the properties, the Id of the target
\* sent to putTargets is event.PhysicalResourceId, a SUCCESS outcome carries
\* event.PhysicalResourceId, neither depends on the value uniqueSuffix()
\* returned, and removeTargets is never called.
C19_TargetUpdateKeepsId ==
  (IsTarget("Update") /\ pc # "start")
    => /\ OnePutTargets
       /\ SentTarget.Id = event.PhysicalResourceId
       /\ CountCalls("removeTargets") = 0
       /\ (sends # <<>> /\ sends[1].status = SUCCESS)
            => sends = <<Outcome(SUCCESS, EmptyObj, event.PhysicalResourceId)>>

\* C19 witness: an Update succeeded while uniqueSuffix() returned a value
\* that is not the suffix of the physical id.
C19_Witness ==
  /\ IsTarget("Update") /\ suffix = "A1B2C3D4E5F6G"
  /\ "Arn" \in DOMAIN Desired
  /\ Len(sends) = 1 /\ sends[1].status = SUCCESS

\* the optional fields of a target
OptionalTargetFields ==
  {"Arn", "RoleArn", "Input", "InputPath", "InputTransformer",
   "KinesisParameters", "RunCommandParameters", "EcsParameters"}

\* C20: on every Target upsert (Create or Update), each optional field that
\* is absent from ResourceProperties is not a key of the target passed to
\* putTargets, and a nested InputPathsMap or InputTemplate absent from a
\* supplied InputTransformer is not a key inside the sent InputTransformer.
C20_TargetOmitsAbsentFields ==
  ((IsTarget("Create") \/ IsTarget("Update")) /\ pc # "start")
    => /\ \A f \in OptionalTargetFields :
            f \notin DOMAIN Desired => f \notin DOMAIN SentTarget
       /\ "InputTransformer" \in DOMAIN Desired
            => \A p \in {"InputPathsMap", "InputTemplate"} :
                 Property(Desired.InputTransformer, p) = Undefined
                   => p \notin DOMAIN SentTarget.InputTransformer

\* putTargets / removeTargets has returned without transport error
TargetReturned ==
  /\ event.handler = "Target"
  /\ event.RequestType \in {"Create", "Update", "Delete"}
  /\ Succeeded(1)

\* the FailedEntryCount the provider returned is zero or absent
NoFailedEntryCount ==
  "FailedEntryCount" \in DOMAIN Current => Current.FailedEntryCount = 0

\* the FailedEntries list the provider returned
ReturnedFailedEntries ==
  IF "FailedEntries" \in DOMAIN Current THEN Current.FailedEntries ELSE <<>>

\* string s ends with string t
EndsWith(s, t) ==
  /\ Len(s) >= Len(t)
  /\ SubSeq(s, Len(s) - Len(t) + 1, Len(s)) = t

\* C21: Target partial failure: when putTargets or removeTargets returns
\* without transport error but with FailedEntryCount > 0, the outcome is
\* FAILED with empty data, and exactly one error is logged for every entry of
\* FailedEntries (as many errors as the list is long), the e-th carrying
\* "<ErrorCode>: <ErrorMessage>" of the e-th entry.
C21_PartialFailureLogsEveryEntry ==
  (TargetReturned /\ ~NoFailedEntryCount)
    => /\ Len(sends) = 1
       /\ sends[1].status = FAILED /\ sends[1].data = EmptyObj
       /\ Len(ErrorLog) = Len(ReturnedFailedEntries)
       /\ \A e \in 1..Len(ReturnedFailedEntries) :
            EndsWith(ErrorLog[e].message,
                     ReturnedFailedEntries[e].ErrorCode \o ": "
                       \o ReturnedFailedEntries[e].ErrorMessage)

\* C22: for Target upsert and Target delete alike, the outcome is SUCCESS if
\* and only if the provider call returned no transport error and its
\* FailedEntryCount is zero or absent; every SUCCESS outcome of the Target
\* handler has empty data.
C22_TargetSuccessIff ==
  (event.handler = "Target" /\ Len(results) = 1)
    => /\ (Len(sends) = 1 /\ sends[1].status = SUCCESS)
            <=> (results[1].err = Null /\ NoFailedEntryCount)
       /\ \A i \in 1..Len(sends) :
            sends[i].status = SUCCESS => sends[i].data = EmptyObj

\* C22 witness: removeTargets returned data without a FailedEntryCount and
\* SUCCESS was sent.
C22_Witness ==
  /\ IsTarget("Delete") /\ Succeeded(1)
  /\ "FailedEntryCount" \notin DOMAIN Current
  /\ Len(sends) = 1 /\ sends[1].status = SUCCESS /\ sends[1].data = EmptyObj

KnownRequestTypes == {"Create", "Update", "Delete"}

\* C25: the rule a Target is attached to (putTargets) and detached from
\* (removeTargets) is taken from the documented resource property RuleArn:
\* for every Target event whose ResourceProperties carry RuleArn = r, the
\* Rule parameter of the provider call equals r.
C25_RuleTakenFromRuleArn ==
  (/\ event.handler = "Target" /\ event.RequestType \in KnownRequestTypes
   /\ "RuleArn" \in DOMAIN Desired /\ pc # "start")
    => calls[1].params.Rule = Desired.RuleArn

\* the Rule Update took the replacement path
Replacing == Described /\ ~SameComparedFields

\* C28: replacement yields a new physical id: whenever a Rule Update takes
\* the replacement path and putRule succeeds, the physicalResourceId of the
\* SUCCESS outcome differs from event.PhysicalResourceId.
C28_ReplacementHasNewId ==
  (Replacing /\ Succeeded(2))
    => /\ Len(sends) = 1 /\ sends[1].status = SUCCESS
       /\ sends[1].physicalResourceId # event.PhysicalResourceId

\* the Create request with the StackId, LogicalResourceId and
\* ResourceProperties of this event
AsCreate ==
  [event EXCEPT !.RequestType = "Create", !.PhysicalResourceId = Undefined]

\* what the handler does with that Create request and the suffix drawn
Created == Rule_handler(FreshWorld, AsCreate, suffix)

\* and what its callback does with putRule result r
CreatedThen(r) ==
  LET p == CHOOSE q \in Created.pending : TRUE
  IN Rule_createCallback(Created, AsCreate, p.closure, r.err, r.data)

\* C29: replacement funnels through create: for every Rule Update that takes
\* the replacement path, the putRule parameters and the outcome sent
\* (status, data, physicalResourceId) are those a Create request with the
\* same StackId, LogicalResourceId, ResourceProperties, suffix and putRule
\* result produces; event.PhysicalResourceId plays no part in them.
C29_ReplacementIsCreate ==
  Replacing
    => /\ Len(calls) = 2 /\ Len(Created.calls) = 1
       /\ calls[2] = Created.calls[1]
       /\ IF Len(results) = 2
          THEN sends = CreatedThen(results[2]).sends
          ELSE sends = Created.sends

\* C29 witness: a replacement with a synthesized name succeeded.
C29_Witness ==
  /\ Replacing /\ "Name" \notin DOMAIN Desired
  /\ Succeeded(2) /\ Len(sends) = 1 /\ sends[1].status = SUCCESS
  /\ sends[1].physicalResourceId = calls[2].params.Name

\* C30: for every Target Create, whatever the length of LogicalResourceId,
\* the generated target Id is at most 64 characters long.
C30_TargetIdLength ==
  (IsTarget("Create") /\ pc # "start")
    => /\ OnePutTargets
       /\ Len(SentTarget.Id) <= MaxTargetIdLen

\* C30 witness: a logical id of more than 50 characters gave an Id of 64.
C30_Witness ==
  /\ IsTarget("Create") /\ pc # "start"
  /\ Len(event.LogicalResourceId) > TargetIdPrefixLen
  /\ Len(SentTarget.Id) = MaxTargetIdLen

\* at most two provider calls, never two outstanding, and two only on a Rule
\* Update: describeRule, and after it returned one of putRule, enableRule,
\* disableRule
CallsAreSequential ==
  /\ Len(calls) <= 2
  /\ Cardinality(pending) <= 1
  /\ Len(calls) = 2
       => /\ IsRule("Update")
          /\ Len(results) >= 1
          /\ calls[1].op = "describeRule"
          /\ calls[2].op \in {"putRule", "enableRule", "disableRule"}
  /\ (IsRule("Update") /\ pc # "start") => Len(calls) \in 1..2

\* a step issues at most one provider call; it issues a second call only
\* while it delivers the result of the first; and it does not both issue a
\* provider call and send the outcome
CallStep ==
  /\ Len(calls') <= Len(calls) + 1
  /\ (Len(calls') > Len(calls) /\ Len(calls) >= 1)
       => (Len(results) = Len(calls) - 1 /\ Len(results') = Len(calls))
  /\ ~(Len(calls') > Len(calls) /\ Len(sends') > Len(sends))

\* C26, as stated: no invocation makes more than two provider calls, and
\* they are strictly sequential: a second call is issued only inside the
\* callback of the first, never while the first is outstanding, and a
\* provider call and the final send are never both issued from the same
\* callback. Only Rule Update makes two calls; Rule Create, Rule Delete and
\* all Target requests make exactly one.
C26_AllTargetRequestsCallOnce ==
  /\ [](/\ CallsAreSequential
        /\ (pc # "start" /\ (IsRule("Create") \/ IsRule("Delete")
                               \/ event.handler = "Target"))
             => Len(calls) = 1)
  /\ [][CallStep]_vars

\* C26, amended: the same, where the requests that make exactly one call are
\* Rule Create, Rule Delete and Target Create, Update and Delete; a request
\* of unknown type makes no provider call, in either handler.
C26_SequentialCalls ==
  /\ [](/\ CallsAreSequential
        /\ (pc # "start" /\ ~IsRule("Update")
              /\ event.RequestType \in KnownRequestTypes)
             => Len(calls) = 1
        /\ (pc # "start" /\ event.RequestType \notin KnownRequestTypes)
             => Len(calls) = 0)
  /\ [][CallStep]_vars

\* C26 witness: describeRule has returned and the putRule issued from its
\* callback is outstanding, nothing sent yet.
C26_Witness ==
  /\ IsRule("Update") /\ pc = "waiting"
  /\ Len(calls) = 2 /\ calls[2].op = "putRule"
  /\ Len(results) = 1 /\ Cardinality(pending) = 1
  /\ sends = <<>>

\* the characters A-Z and 0-9: 1..26 and 53..62 of the base64 alphabet
IsUpperOrDigit(c) ==
  \E i \in (1..26) \cup (53..62) : SubSeq(Base64Alphabet, i, i) = c

\* C27: uniqueSuffix() returns, for every value of the 20 random bytes, a
\* string of exactly 13 characters, each in [A-Z0-9].
C27_SuffixIsThirteenCharacters ==
  suffix # Undefined
    => /\ Len(suffix) = 13
       /\ \A i \in 1..Len(suffix) : IsUpperOrDigit(SubSeq(suffix, i, i))

\* the provider accepted the putTargets of this invocation
Upserted == Succeeded(1) /\ NoFailedEntryCount

\* C24: Target upsert is idempotent: when the same Update (identical
\* ResourceProperties, same PhysicalResourceId) is invoked again against a
\* provider whose putTargets upserts by target Id, and the provider accepted
\* the call each time, the outcome is SUCCESS with the same
\* physicalResourceId each time, and after the later invocation the rule
\* holds exactly one target with that Id, in the same state as after the
\* earlier one.
C24_UpsertIsIdempotent ==
  (/\ Len(outcomes) >= 1 /\ pc = "done" /\ Upserted
   /\ \A k \in 1..Len(outcomes) : outcomes[k].send.status = SUCCESS)
    => /\ sends = <<Outcome(SUCCESS, EmptyObj, event.PhysicalResourceId)>>
       /\ \A k \in 1..Len(outcomes) :
            /\ outcomes[k].send = sends[1]
            /\ outcomes[k].targets = targets
       /\ Cardinality({t \in targets : t.Id = event.PhysicalResourceId}) = 1

\* C24 witness: the rule held the target with its former Arn and another
\* target; both invocations succeeded, with different values of
\* uniqueSuffix() or not, and the rule holds two targets.
C24_Witness ==
  /\ Len(outcomes) = 1 /\ pc = "done" /\ Upserted
  /\ outcomes[1].send.status = SUCCESS
  /\ Len(sends) = 1 /\ sends[1].status = SUCCESS
  /\ "Arn" \in DOMAIN Desired
  /\ Cardinality(targets) = 2

\* describeRule returned a field the ResourceProperties have no key for
DescribedWithout(field) ==
  field \in DOMAIN Current /\ field \notin DOMAIN Desired

\* C35: for every Rule Update in which describeRule succeeds and returns an
\* Arn while ResourceProperties has no Arn key, or a Name while
\* ResourceProperties has no Name key, the replacement path is taken and
\* putRule is called, whether or not any other field or the State differs;
\* the enableRule / disableRule and no-op branches are reached only when
\* ResourceProperties.Name and ResourceProperties.Arn both equal the
\* described values.
C35_MissingNameOrArnReplaces ==
  Described
    => /\ (DescribedWithout("Arn") \/ DescribedWithout("Name"))
            => /\ createResourceCalls = 1
               /\ Len(calls) = 2 /\ calls[2].op = "putRule"
       /\ (\/ Len(calls) = 2 /\ calls[2].op \in {"enableRule", "disableRule"}
           \/ Len(calls) = 1 /\ Len(sends) = 1 /\ sends[1].status = SUCCESS)
            => /\ Get(Desired, "Name") = Get(Current, "Name")
               /\ Get(Desired, "Arn") = Get(Current, "Arn")

\* C35 witness: the described rule has an Arn, the ResourceProperties have
\* none, nothing else differs, State included, and putRule was called.
C35_Witness ==
  /\ Described /\ DescribedWithout("Arn")
  /\ \A f \in (ComparedFields \cup {"State"}) \ {"Arn"} :
       Get(Current, f) = Get(Desired, f)
  /\ Len(calls) = 2 /\ calls[2].op = "putRule"

\* the composite name the provider builds for the target of a rule
CompositeName == "AWSEvents_" \o Desired.Rule \o "_" \o SentTarget.Id

\* C31: for every Target Create, the composite name
\* "AWSEvents_<rule>_<target Id>" built from ResourceProperties.Rule and the
\* generated Id is at most 100 characters long, also when the rule name is
\* one the Rule handler synthesized.
C31_CompositeNameLength ==
  (IsTarget("Create") /\ pc # "start" /\ "Rule" \in DOMAIN Desired)
    => Len(CompositeName) <= MaxCompositeNameLen

\* a Delete the orchestrator sent for the old rule after a replacement
DeleteAfterReplacement == IsRule("Delete") /\ outcomes # <<>>

\* a step of the Rule handler leaves the targets of the rule named by
\* PhysicalResourceId as they were
RuleStepKeepsTargets ==
  event.handler = "Rule"
    => TargetsOf(provider', event.PhysicalResourceId)
         = TargetsOf(provider, event.PhysicalResourceId)

\* C32: Rule Delete does not cascade. Its only provider call is deleteRule on
\* the rule named by PhysicalResourceId, never removeTargets, and no step of
\* the Rule handler (the replacing Update before it included) changes the
\* set of targets attached to that rule; the attachments the orchestrator's
\* Delete of a replaced rule finds are all still there while it runs.
C32_DeleteDoesNotCascade ==
  /\ [](/\ (IsRule("Delete") /\ pc # "start")
             => /\ Len(calls) = 1
                /\ calls[1] = [op |-> "deleteRule",
                               params |-> [Name |-> event.PhysicalResourceId]]
                /\ CountCalls("removeTargets") = 0
        /\ DeleteAfterReplacement
             => outcomes[1].targets \subseteq provider.attached)
  /\ [][RuleStepKeepsTargets]_vars

\* C32 witness: the Update replaced the rule under a new name, the Delete of
\* the old rule has run to its end, and the target attached to the old rule
\* is still attached to it.
C32_Witness ==
  /\ DeleteAfterReplacement /\ pc = "done"
  /\ outcomes[1].send.physicalResourceId # event.PhysicalResourceId
  /\ Len(calls) = 1 /\ calls[1].op = "deleteRule"
  /\ OtherTarget \in TargetsOf(provider, event.PhysicalResourceId)

\* the fields of a rule that reconciliation brings to the desired values
ReconciledFields ==
  {"Description", "EventPattern", "ScheduleExpression", "RoleArn", "State"}

\* the Update of a rule with a desired State of ENABLED or DISABLED has
\* ended in SUCCESS
Reconciled ==
  /\ IsRule("Update") /\ pc = "done"
  /\ Get(Desired, "State") \in {"ENABLED", "DISABLED"}
  /\ Len(sends) = 1 /\ sends[1].status = SUCCESS

\* C34: reconciliation converges on success. When a Rule Update with desired
\* State ENABLED or DISABLED ends in SUCCESS, by whichever branch, the
\* provider has exactly one rule named by the physicalResourceId of the
\* outcome, and its Description, EventPattern, ScheduleExpression, RoleArn
\* and State equal the desired properties (a property not desired is not set
\* on the rule).
C34_ReconciliationConverges ==
  Reconciled
    => /\ Cardinality(RuleNamed(provider, sends[1].physicalResourceId)) = 1
       /\ \A r \in RuleNamed(provider, sends[1].physicalResourceId) :
            \A f \in ReconciledFields : Get(r, f) = Get(Desired, f)

\* C34 witness: a replacement under a new name succeeded with a desired State
\* of DISABLED, and the rule the provider holds under the new name is
\* DISABLED.
C34_Witness ==
  /\ Reconciled
  /\ createResourceCalls = 1
  /\ sends[1].physicalResourceId # event.PhysicalResourceId
  /\ Desired.State = "DISABLED"
  /\ \E r \in RuleNamed(provider, sends[1].physicalResourceId) :
       r.State = "DISABLED"

\* the targets of the rule of this name that have the Id of this resource
OwnTargetsOf(prov, name) ==
  {t \in TargetsOf(prov, name) : t.Id = event.PhysicalResourceId}

\* a step of a Target Update leaves the targets of every rule other than
\* the desired one as they were
TargetUpdateKeepsOtherRules ==
  IsTarget("Update")
    => \A n \in RuleNames \ {Get(Desired, "Rule")} :
         TargetsOf(provider', n) = TargetsOf(provider, n)

\* C36: a Target Update issues putTargets on the rule its Rule property
\* names and nothing else, no removeTargets; after it succeeds a target with
\* the Id of the resource is attached to that rule; and no step of it
\* changes the targets of any other rule, so that the target of that Id
\* stays attached to the rule it was created on when that is a different
\* rule.
C36_UpdateOnOtherRuleLeavesOld ==
  /\ [](/\ (IsTarget("Update") /\ pc # "start")
             => /\ OnePutTargets
                /\ calls[1].params.Rule = Get(Desired, "Rule")
                /\ SentTarget.Id = event.PhysicalResourceId
                /\ CountCalls("removeTargets") = 0
        /\ (IsTarget("Update") /\ pc = "done"
              /\ Len(sends) = 1 /\ sends[1].status = SUCCESS)
             => OwnTargetsOf(provider, Get(Desired, "Rule")) = {SentTarget})
  /\ [][TargetUpdateKeepsOtherRules]_vars

\* C36 witness: the Update named another rule than the one the target was
\* created on and succeeded; the target is attached to the new rule as
\* desired, and the target of the same Id is attached to the old rule as it
\* was.
C36_Witness ==
  /\ IsTarget("Update") /\ pc = "done"
  /\ Len(sends) = 1 /\ sends[1].status = SUCCESS
  /\ \E old \in RuleNames \ {Get(Desired, "Rule")} :
       /\ OwnTargetsOf(provider, old)
            = {[Id |-> event.PhysicalResourceId,
                Arn |-> "arn:aws:::012345678901:before"]}
       /\ OwnTargetsOf(provider, Desired.Rule) = {SentTarget}

\* the world of an invocation of ev that runs alone from world w and is
\* given the provider results rs, one for each call it makes, in order
RECURSIVE AloneFrom(_, _, _, _)
AloneFrom(w, ev, sfx, rs) ==
  IF rs = <<>> \/ w.pending = {} THEN w
  ELSE LET p == CHOOSE q \in w.pending : TRUE
       IN AloneFrom(Return(Callback(DeliverTo(w, p, rs[1]), ev, p, sfx, rs[1])),
                    ev, sfx, Tail(rs))

Alone(ev, sfx, rs) == AloneFrom(Return(Handler(FreshWorld, ev, sfx)), ev, sfx, rs)

\* the suffix invocation i drew, or any when it drew none
SuffixOf(i) ==
  IF inflight[i].w.suffix = Undefined THEN "UT4QDIDSRK4IK"
                                      ELSE inflight[i].w.suffix

====
